---------------------------- MODULE Spec2Model ----------------------------
(***************************************************************************)
(* Model of the fuzzy search result store (FuzzySearchResultManager,       *)
(* search/result_manager/fuzzy.rs): a RAM buffer of bounded capacity that  *)
(* overflows into a memory-mapped spill file.                              *)
(*                                                                         *)
(* A store is a record of the struct's fields plus the part of the file    *)
(* system the store touches (the spill file: does it exist, its length,    *)
(* its contents in record slots).  Every method is an operator from a      *)
(* store (and its arguments) to a result [s, ok, io]: the store after the  *)
(* call, Ok/Err, and what is left of the I/O oracle.  The oracle io is the *)
(* number of fallible system calls (open, set_len, map, unlink) that       *)
(* succeed before one fails.                                               *)
(*                                                                         *)
(* A record (FuzzySearchResultItem) is represented by the stamp of the add *)
(* that produced it: stamps are handed out in increasing order, so the     *)
(* order "in which records were added" is the order of the stamps.         *)
(*                                                                         *)
(* The store sits behind SearchResultManager (search/result_manager.rs),   *)
(* which owns an exact store and a fuzzy store and routes every call to    *)
(* the one of the current mode.  The variables of the fuzzy store are the  *)
(* manager's field fuzzy; current_mode and exact are its other two fields. *)
(***************************************************************************)
EXTENDS Integers, Sequences, FiniteSets, TLC

VARIABLES
    memory_buffer,           \* Vec<FuzzySearchResultItem>
    memory_buffer_capacity,  \* usize
    disk_file_path,          \* Option<PathBuf>: <<>> or <<PATH>>
    disk_file,               \* Option<File>:    <<>> or <<FILE>>
    mmap,                    \* Option<MmapMut>: <<>> or <<length in bytes>>
    disk_count,              \* usize
    total_count,             \* usize
    fs_exists,               \* the file mamu_fuzzy_results.bin exists
    fs_len,                  \* its length in bytes
    fs_data,                 \* its contents, one entry per whole record slot
    ub,                      \* a write outside the mapping has happened
    misordered,              \* a handle was closed under a live mapping, or the
                             \* file unlinked under a live mapping or handle
    current_mode,            \* SearchResultManager: "Exact" or "Fuzzy"
    exact,                   \* SearchResultManager: the exact store, a record
    next_stamp,              \* the stamp the next added record gets
    only_adds,               \* every call so far was an add that returned Ok
    last,                    \* the last call: [op, ok, tags]
    probe                    \* a record under examination: the arguments of
                             \* a call on it, then the call and what it returned

vars == <<memory_buffer, memory_buffer_capacity, disk_file_path, disk_file,
          mmap, disk_count, total_count, fs_exists, fs_len, fs_data, ub,
          misordered, current_mode, exact, next_stamp, only_adds, last,
          probe>>

---------------------------------------------------------------------------
(* Bounds of the model. *)

\* Largest RAM capacity (in records) a store is built with.
MaxCap == 2
\* Number of records ever handed to add / replace_all in one run.
MaxAdds == 3
\* Longest index list handed to remove_many / keep_only.
MaxList == 3
\* Whole record slots in one growth step of the spill file (the source's
\* step is 128 MiB = 7895160 slots and 8 bytes; the model keeps the 8 bytes).
StepSlots == 1
\* Latest position (counted in fallible system calls of one call) at which
\* the I/O oracle makes a call fail.
MaxFailAt == 2
\* Bits in one byte of a record's value (the source's u8 has 8): the widths
\* of all integer and float types scale with it, so i64 has 8 * ByteBits
\* bits and its minimum, its wrap-around and its sign bits are all there.
ByteBits == 2
\* Longest byte slice handed to from_bytes: longer than the value field.
MaxSlice == 9

---------------------------------------------------------------------------
(* Program constants. *)

\* size_of::<FuzzySearchResultItem>(): 8 + 8 + 1 bytes, packed.
ITEM_SIZE == 17
\* The growth step "128 * 1024 * 1024", scaled: StepSlots slots and the
\* 8 bytes by which 128 MiB exceeds a whole number of 17-byte records.
GROW_STEP == StepSlots * ITEM_SIZE + 8

PATH == "mamu_fuzzy_results.bin"
FILE == "file"

\* A slot of the file that was never written: set_len fills with zero bytes.
ZeroItem == 0
\* What a read past the end of the mapping yields (undefined behaviour in
\* the source): a value that is no record and no zero slot.
Unmapped == 0 - 1

\* An oracle value under which no system call of one call fails: a call
\* makes at most three fallible system calls per record it appends.
NoFail == 3 * (MaxAdds + 2)
IoOk == {NoFail}
IoAny == (0 .. MaxFailAt) \cup {NoFail}

---------------------------------------------------------------------------
(* Helpers for Option, Result and Vec. *)

IsSome(o) == o # <<>>
IsNone(o) == o = <<>>

R(s, ok, io) == [s |-> s, ok |-> ok, io |-> io]

Min(a, b) == IF a < b THEN a ELSE b

Zeros(n) == [i \in 1 .. n |-> ZeroItem]

\* Mutant of sort_unstable: the sort is forgotten
sort_unstable_forgotten(seq) == seq

\* indices.sort_unstable()
sort_unstable(seq) == SortSeq(seq, LAMBDA a, b : a < b)

\* indices.dedup(): drops every element equal to its predecessor
RECURSIVE dedup(_)
dedup(seq) ==
    IF Len(seq) <= 1 THEN seq
    ELSE IF seq[1] = seq[2] THEN dedup(Tail(seq))
    ELSE <<seq[1]>> \o dedup(Tail(seq))

\* indices.retain(|&idx| pred), partition and Iterator::filter: the elements
\* of seq that satisfy the predicate, here the set of values it admits
retain(seq, admitted) == SelectSeq(seq, LAMBDA x : x \in admitted)

\* Vec::remove(index): shifts the tail left by one
vec_remove(seq, index) ==
    SubSeq(seq, 1, index) \o SubSeq(seq, index + 2, Len(seq))

SeqToSet(seq) == {seq[i] : i \in 1 .. Len(seq)}

---------------------------------------------------------------------------
(* ValueType (search/types.rs) *)

Byte   == "Byte"
Word   == "Word"
Dword  == "Dword"
Qword  == "Qword"
Float  == "Float"
Double == "Double"
Auto   == "Auto"
Xor    == "Xor"

ValueType == {Byte, Word, Dword, Qword, Float, Double, Auto, Xor}

\* ValueType::size(): the significant prefix of the value, in bytes
type_size(value_type) ==
    CASE value_type = Byte   -> 1
      [] value_type = Word   -> 2
      [] value_type = Dword  -> 4
      [] value_type = Qword  -> 8
      [] value_type = Float  -> 4
      [] value_type = Double -> 8
      [] value_type = Auto   -> 4
      [] value_type = Xor    -> 4

\* ValueType::is_float_type()
is_float_type(value_type) == value_type \in {Float, Double}

---------------------------------------------------------------------------
(* Integers of the machine. *)

\* The number of values of a u8
BYTE_MOD == 2 ^ ByteBits
\* The length of the value field: [u8; 8]
VALUE_LEN == 8

\* The bounds of an integer type of n bytes
int_mod(n) == BYTE_MOD ^ n
int_min(n) == 0 - (int_mod(n) \div 2)
int_max(n) == (int_mod(n) \div 2) - 1

I64_MIN == int_min(8)
I64_MAX == int_max(8)

\* The value of the first n bytes read as an unsigned little-endian number
RECURSIVE le_bits(_, _)
le_bits(bytes, n) ==
    IF n = 0 THEN 0 ELSE bytes[1] + BYTE_MOD * le_bits(Tail(bytes), n - 1)

\* Mutant of from_le_bytes: the sign bit is not extended
from_le_bytes_unsigned(bytes, n) == le_bits(bytes, n)

\* i8 / i16 / i32 / i64 ::from_le_bytes(bytes[..n]) as i64: the first n
\* bytes as a signed little-endian number, sign-extended
from_le_bytes(bytes, n) ==
    LET bits == le_bits(bytes, n)
    IN  IF bits > int_max(n) THEN bits - int_mod(n) ELSE bits

\* Two's-complement reduction of a mathematical integer to i64
wrap(x) == ((x - I64_MIN) % int_mod(8)) + I64_MIN

\* i64::wrapping_sub
wrapping_sub(a, b) == wrap(a - b)

\* The result of an arithmetic step that may panic
Value(v) == [panicked |-> FALSE, value |-> v]
Panic    == [panicked |-> TRUE,  value |-> 0]

\* The unary minus of i64: with overflow checks compiled in, -i64::MIN
\* panics ("attempt to negate with overflow"); without them it wraps
neg(a, overflow_checks) ==
    IF a = I64_MIN /\ overflow_checks THEN Panic ELSE Value(wrap(0 - a))

---------------------------------------------------------------------------
(* f32 and f64.  A float is NaN, an infinity or a finite number; a finite
   number is a whole number of grid units, the grid unit being the
   smallest positive f64.  The formats are IEEE-754 formats scaled with
   ByteBits: a sign bit, EXP_BITS exponent bits, the rest mantissa. *)

\* Width of the exponent field of f32 and f64 (8 and 11 bits in the source's
\* formats, scaled)
EXP_BITS == 3
EXP_BIAS == 2 ^ (EXP_BITS - 1) - 1
\* f64::MANTISSA_DIGITS: the significant bits of an f64, fewer than the
\* bits of an i64
MANT_DIG == 8 * ByteBits - EXP_BITS
\* Fraction bits of the grid: one grid unit is 2 ^ -GRID
GRID == EXP_BIAS + MANT_DIG - 2
\* 1.0 in grid units
ONE == 2 ^ GRID
\* f64::MAX in grid units
F64_MAX == (2 ^ MANT_DIG - 1) * 2 ^ (2 * EXP_BIAS - 1)

NaN    == [kind |-> "nan", v |-> 0]
Inf(s) == [kind |-> "inf", v |-> s]
Fin(u) == [kind |-> "fin", v |-> u]

is_nan(x) == x.kind = "nan"

Abs(n) == IF n < 0 THEN 0 - n ELSE n
Sign(n) == IF n < 0 THEN 0 - 1 ELSE 1
Max(a, b) == IF a > b THEN a ELSE b

\* The number of bits of a natural number
RECURSIVE bit_len(_)
bit_len(n) == IF n = 0 THEN 0 ELSE 1 + bit_len(n \div 2)

\* Round-to-nearest, ties-to-even, of a magnitude to MANT_DIG significant
\* bits and to a multiple of 2 ^ min_shift at least
round_mag(a, min_shift) ==
    LET shift == Max(min_shift, bit_len(a) - MANT_DIG)
        step  == 2 ^ shift
        quo   == a \div step
        rem   == a % step
        up    == 2 * rem > step \/ (2 * rem = step /\ quo % 2 = 1)
    IN  (IF up THEN quo + 1 ELSE quo) * step

\* The f64 nearest to an exact result given in half grid units; results
\* beyond f64::MAX become infinite
round_f64(halves) ==
    LET r == round_mag(Abs(halves), 1) \div 2
    IN  IF r > F64_MAX THEN Inf(Sign(halves)) ELSE Fin(Sign(halves) * r)

\* f32::from_le_bytes / f64::from_le_bytes of the first n bytes, widened to
\* f64 (every f32 is an f64)
float_from_le_bytes(bytes, n) ==
    LET bits      == le_bits(bytes, n)
        mant_bits == n * ByteBits - 1 - EXP_BITS
        sign      == IF bits >= 2 ^ (n * ByteBits - 1) THEN 0 - 1 ELSE 1
        e         == (bits \div 2 ^ mant_bits) % 2 ^ EXP_BITS
        frac      == bits % 2 ^ mant_bits
    IN  IF e = 2 ^ EXP_BITS - 1
        THEN IF frac = 0 THEN Inf(sign) ELSE NaN
        ELSE IF e = 0
        THEN Fin(sign * frac * 2 ^ (GRID + 1 - EXP_BIAS - mant_bits))
        ELSE Fin(sign * (2 ^ mant_bits + frac) * 2 ^ (GRID + e - EXP_BIAS - mant_bits))

\* -x
f_neg(x) == IF x.kind = "nan" THEN NaN ELSE [x EXCEPT !.v = 0 - x.v]

\* x.abs()
f_abs(x) == IF x.kind = "nan" THEN NaN ELSE [x EXCEPT !.v = Abs(x.v)]

\* x + y
f_add(x, y) ==
    CASE x.kind = "nan" \/ y.kind = "nan" -> NaN
      [] x.kind = "inf" /\ y.kind = "inf" -> IF x.v = y.v THEN x ELSE NaN
      [] x.kind = "inf" /\ y.kind = "fin" -> x
      [] x.kind = "fin" /\ y.kind = "inf" -> y
      [] x.kind = "fin" /\ y.kind = "fin" -> round_f64(2 * (x.v + y.v))

\* x - y
f_sub(x, y) == f_add(x, f_neg(y))

\* x * f for a factor f given in halves (f = factor2 / 2)
f_mul(x, factor2) ==
    CASE x.kind = "nan" -> NaN
      [] x.kind = "inf" -> IF factor2 = 0 THEN NaN ELSE Inf(x.v * Sign(factor2))
      [] x.kind = "fin" -> round_f64(x.v * factor2)

\* The place of a float that is not NaN in the order of the floats
f_ord(x) == IF x.kind = "inf" THEN x.v * (F64_MAX + 1) ELSE x.v

\* x < y, x <= y, x > y, x >= y: false when either is NaN
f_lt(x, y) == ~is_nan(x) /\ ~is_nan(y) /\ f_ord(x) < f_ord(y)
f_le(x, y) == ~is_nan(x) /\ ~is_nan(y) /\ f_ord(x) <= f_ord(y)
f_gt(x, y) == f_lt(y, x)

\* Mutant of f_ge: "not less than", which holds for NaN
f_ge_not_lt(x, y) == ~f_lt(x, y)

f_ge(x, y) == f_le(y, x)

\* v as f64 for an integer v of small magnitude (as the amounts and range
\* ends of a float predicate are)
int_as_f64(v) == round_f64(2 * v * ONE)

\* x as i64: truncation toward zero, saturating, NaN gives 0
f64_as_i64(x) ==
    CASE x.kind = "nan" -> 0
      [] x.kind = "inf" -> IF x.v > 0 THEN I64_MAX ELSE I64_MIN
      [] x.kind = "fin" ->
            LET t == Sign(x.v) * (Abs(x.v) \div ONE)
            IN  IF t > I64_MAX THEN I64_MAX ELSE IF t < I64_MIN THEN I64_MIN ELSE t

\* Mutant of percent_threshold: the product is rounded down (floor)
percent_threshold_floor(old_val, factor2) == (old_val * factor2) \div 2

\* (old_val as f64 * factor) as i64 for a factor given in halves: old_val
\* is rounded to the precision of f64, the product is rounded again, and
\* the cast truncates toward zero and saturates
percent_threshold(old_val, factor2) ==
    LET old_f   == Sign(old_val) * round_mag(Abs(old_val), 0)
        product == Sign(old_f * factor2) * round_mag(Abs(old_f * factor2), 0)
        t       == Sign(product) * (Abs(product) \div 2)
    IN  IF t > I64_MAX THEN I64_MAX ELSE IF t < I64_MIN THEN I64_MIN ELSE t

---------------------------------------------------------------------------
(* FuzzySearchResultItem *)

FuzzySearchResultItem(address, value, value_type) ==
    [address |-> address, value |-> value, value_type |-> value_type]

\* new(address, value, value_type)
item_new(address, value, value_type) ==
    FuzzySearchResultItem(address, value, value_type)

\* Mutant of from_bytes: only the significant prefix of the type is copied
from_bytes_prefix_only(address, bytes, value_type) ==
    LET len == Min(Min(Len(bytes), VALUE_LEN), type_size(value_type))
    IN  FuzzySearchResultItem(address,
            [i \in 1 .. VALUE_LEN |-> IF i <= len THEN bytes[i] ELSE 0],
            value_type)

\* from_bytes(address, bytes, value_type): value = [0u8; 8], then
\* value[..len].copy_from_slice(&bytes[..len]) with len = min(bytes.len(), 8)
from_bytes(address, bytes, value_type) ==
    LET len == Min(Len(bytes), VALUE_LEN)
    IN  FuzzySearchResultItem(address,
            [i \in 1 .. VALUE_LEN |-> IF i <= len THEN bytes[i] ELSE 0],
            value_type)

\* as_i64()
as_i64(item) ==
    CASE item.value_type = Byte   -> from_le_bytes(item.value, 1)
      [] item.value_type = Word   -> from_le_bytes(item.value, 2)
      [] item.value_type \in {Dword, Auto, Xor} -> from_le_bytes(item.value, 4)
      [] item.value_type = Qword  -> from_le_bytes(item.value, 8)
      [] item.value_type = Float  -> f64_as_i64(float_from_le_bytes(item.value, 4))
      [] item.value_type = Double -> f64_as_i64(float_from_le_bytes(item.value, 8))

\* as_f64()
as_f64(item) ==
    CASE item.value_type = Byte   -> int_as_f64(from_le_bytes(item.value, 1))
      [] item.value_type = Word   -> int_as_f64(from_le_bytes(item.value, 2))
      [] item.value_type \in {Dword, Auto, Xor} -> int_as_f64(from_le_bytes(item.value, 4))
      [] item.value_type = Qword  -> int_as_f64(from_le_bytes(item.value, 8))
      [] item.value_type = Float  -> float_from_le_bytes(item.value, 4)
      [] item.value_type = Double -> float_from_le_bytes(item.value, 8)

\* FuzzyCondition (crate::search): amounts and range ends are i64; a
\* percentage is a float, given here in halves (percent = 1 is 0.5)
Initial   == [kind |-> "Initial"]
Unchanged == [kind |-> "Unchanged"]
Changed   == [kind |-> "Changed"]
Increased == [kind |-> "Increased"]
Decreased == [kind |-> "Decreased"]
IncreasedBy(amount) == [kind |-> "IncreasedBy", amount |-> amount]
DecreasedBy(amount) == [kind |-> "DecreasedBy", amount |-> amount]
IncreasedByRange(min, max) == [kind |-> "IncreasedByRange", min |-> min, max |-> max]
DecreasedByRange(min, max) == [kind |-> "DecreasedByRange", min |-> min, max |-> max]
IncreasedByPercent(percent) == [kind |-> "IncreasedByPercent", percent |-> percent]
DecreasedByPercent(percent) == [kind |-> "DecreasedByPercent", percent |-> percent]

\* matches_condition_int
matches_condition_int(item, new_item, condition, overflow_checks) ==
    LET old_val == as_i64(item)
        new_val == as_i64(new_item)
        diff    == wrapping_sub(new_val, old_val)
        kind    == condition.kind
    IN  CASE kind = "Initial"   -> Value(TRUE)
          [] kind = "Unchanged" -> Value(old_val = new_val)
          [] kind = "Changed"   -> Value(old_val # new_val)
          [] kind = "Increased" -> Value(new_val > old_val)
          [] kind = "Decreased" -> Value(new_val < old_val)
          [] kind = "IncreasedBy" -> Value(diff = condition.amount)
          [] kind = "DecreasedBy" ->
                LET neg_amount == neg(condition.amount, overflow_checks)
                IN  IF neg_amount.panicked THEN Panic
                    ELSE Value(diff = neg_amount.value)
          [] kind = "IncreasedByRange" ->
                Value(diff >= condition.min /\ diff <= condition.max)
          [] kind = "DecreasedByRange" ->
                LET neg_diff == neg(diff, overflow_checks)
                IN  IF neg_diff.panicked THEN Panic
                    ELSE Value(neg_diff.value >= condition.min
                               /\ neg_diff.value <= condition.max)
          [] kind = "IncreasedByPercent" ->
                IF old_val = 0 THEN Value(new_val > 0)
                ELSE Value(new_val >= percent_threshold(old_val, 2 + condition.percent))
          [] kind = "DecreasedByPercent" ->
                IF old_val = 0 THEN Value(new_val < 0)
                ELSE Value(new_val <= percent_threshold(old_val, 2 - condition.percent))

\* let epsilon = 1e-9, scaled: below the spacing of the f32 around 1.0,
\* above the smallest positive f32
epsilon == Fin(2 ^ (GRID - 4 * ByteBits + 3))

\* matches_condition_float
matches_condition_float(item, new_item, condition) ==
    LET old_val == as_f64(item)
        new_val == as_f64(new_item)
        diff    == f_sub(new_val, old_val)
        kind    == condition.kind
    IN  CASE kind = "Initial"   -> Value(TRUE)
          [] kind = "Unchanged" -> Value(f_lt(f_abs(f_sub(old_val, new_val)), epsilon))
          [] kind = "Changed"   -> Value(f_ge(f_abs(f_sub(old_val, new_val)), epsilon))
          [] kind = "Increased" -> Value(f_gt(new_val, f_add(old_val, epsilon)))
          [] kind = "Decreased" -> Value(f_lt(new_val, f_sub(old_val, epsilon)))
          [] kind = "IncreasedBy" ->
                Value(f_lt(f_abs(f_sub(diff, int_as_f64(condition.amount))), epsilon))
          [] kind = "DecreasedBy" ->
                Value(f_lt(f_abs(f_add(diff, int_as_f64(condition.amount))), epsilon))
          [] kind = "IncreasedByRange" ->
                Value(f_ge(diff, int_as_f64(condition.min))
                      /\ f_le(diff, int_as_f64(condition.max)))
          [] kind = "DecreasedByRange" ->
                LET neg_diff == f_neg(diff)
                IN  Value(f_ge(neg_diff, int_as_f64(condition.min))
                          /\ f_le(neg_diff, int_as_f64(condition.max)))
          [] kind = "IncreasedByPercent" ->
                IF f_lt(f_abs(old_val), epsilon) THEN Value(f_gt(new_val, epsilon))
                ELSE Value(f_ge(new_val, f_mul(old_val, 2 + condition.percent)))
          [] kind = "DecreasedByPercent" ->
                IF f_lt(f_abs(old_val), epsilon) THEN Value(f_lt(new_val, f_neg(epsilon)))
                ELSE Value(f_le(new_val, f_mul(old_val, 2 - condition.percent)))

\* matches_condition(new_bytes, condition)
matches_condition(item, new_bytes, condition, overflow_checks) ==
    LET new_item == from_bytes(item.address, new_bytes, item.value_type)
    IN  IF is_float_type(item.value_type)
        THEN matches_condition_float(item, new_item, condition)
        ELSE matches_condition_int(item, new_item, condition, overflow_checks)

\* value_size()
value_size(item) == type_size(item.value_type)

\* with_new_value(new_bytes)
with_new_value(item, new_bytes) ==
    from_bytes(item.address, new_bytes, item.value_type)

---------------------------------------------------------------------------
(* FuzzySearchResultManager *)

\* new(memory_buffer_size, cache_dir): the capacity in records
new_capacity(memory_buffer_size) ==
    IF memory_buffer_size = 0 THEN 0 ELSE memory_buffer_size \div ITEM_SIZE

\* new(memory_buffer_size, cache_dir); the spill file does not exist yet
new(memory_buffer_size) ==
    [memory_buffer          |-> <<>>,
     memory_buffer_capacity |-> new_capacity(memory_buffer_size),
     disk_file_path         |-> <<>>,
     disk_file              |-> <<>>,
     mmap                   |-> <<>>,
     disk_count             |-> 0,
     total_count            |-> 0,
     fs_exists              |-> FALSE,
     fs_len                 |-> 0,
     fs_data                |-> <<>>,
     ub                     |-> FALSE,
     misordered             |-> FALSE]

\* std::fs::remove_file(path)
unlinked(s) ==
    [s EXCEPT !.fs_exists = FALSE, !.fs_len = 0, !.fs_data = <<>>,
              !.misordered = s.misordered \/ IsSome(s.mmap) \/ IsSome(s.disk_file)]

\* drop(self.mmap.take())
drop_mmap(s) == [s EXCEPT !.mmap = <<>>]

\* drop(self.disk_file.take())
drop_disk_file(s) ==
    [s EXCEPT !.disk_file = <<>>,
              !.misordered = s.misordered \/ (IsSome(s.disk_file) /\ IsSome(s.mmap))]

\* file.set_len(new_size): extends with zero bytes
set_len(s, new_size) ==
    [s EXCEPT !.fs_len = new_size,
              !.fs_data = SubSeq(s.fs_data \o Zeros(new_size \div ITEM_SIZE),
                                 1, new_size \div ITEM_SIZE)]

\* init_disk_file: open(create, truncate), set_len(initial_size), map_mut;
\* the fields are assigned only when all three succeeded
init_disk_file(s, io) ==
    IF io = 0 THEN R(s, FALSE, 0)
    ELSE LET s1 == [s EXCEPT !.fs_exists = TRUE, !.fs_len = 0, !.fs_data = <<>>]
         IN  IF io = 1 THEN R(s1, FALSE, 0)
             ELSE LET s2 == set_len(s1, GROW_STEP)
                  IN  IF io = 2 THEN R(s2, FALSE, 0)
                      ELSE R([s2 EXCEPT !.disk_file_path = <<PATH>>,
                                        !.disk_file = <<FILE>>,
                                        !.mmap = <<GROW_STEP>>],
                             TRUE, io - 3)

\* Mutant of grow_mapping: the file is extended by two steps
grow_mapping_two_steps(s, io) ==
    LET s2 == set_len(drop_mmap(s), s.mmap[1] + 2 * GROW_STEP)
    IN  R([s2 EXCEPT !.mmap = <<s2.fs_len>>], TRUE, io - 2)

\* The growth branch of write_to_disk: drop the mapping, set_len, map_mut
grow_mapping(s, io) ==
    LET mmap_size == s.mmap[1]
        new_size  == mmap_size + GROW_STEP
        s1 == drop_mmap(s)
    IN  IF IsSome(s1.disk_file) /\ io = 0 THEN R(s1, FALSE, 0)
        ELSE LET s2  == IF IsSome(s1.disk_file) THEN set_len(s1, new_size) ELSE s1
                 io2 == IF IsSome(s1.disk_file) THEN io - 1 ELSE io
             IN  IF io2 = 0 THEN R(s2, FALSE, 0)
                 ELSE R([s2 EXCEPT !.mmap = <<s2.fs_len>>], TRUE, io2 - 1)

\* A read of slot k of the mapping (0-based).  A slot past the end of the
\* mapping is outside the mapped memory: the read is undefined behaviour
\* and yields Unmapped
slot_of(data, k) == IF k + 1 <= Len(data) THEN data[k + 1] ELSE Unmapped

\* A write of slot k of the mapping.  Past the end of the mapping the
\* write is undefined behaviour: nothing of the file changes
slot_set(data, k, item) == IF k + 1 <= Len(data) THEN [data EXCEPT ![k + 1] = item] ELSE data

\* Mutant of write_slot: the record is not written
write_slot_dropped(s, disk_index, item) == s

\* ptr.write(item) at slot disk_index of the mapping
write_slot(s, disk_index, item) ==
    [s EXCEPT !.fs_data = slot_set(s.fs_data, disk_index, item),
              !.ub = s.ub \/ disk_index + 1 > Len(s.fs_data)]

\* write_to_disk
write_to_disk(s, item, io) ==
    LET r0 == IF IsNone(s.disk_file) THEN init_disk_file(s, io) ELSE R(s, TRUE, io)
    IN  IF ~r0.ok THEN r0
        ELSE IF IsSome(r0.s.mmap)
        THEN LET offset == r0.s.disk_count * ITEM_SIZE
                 r1 == IF offset + ITEM_SIZE > r0.s.mmap[1]
                       THEN grow_mapping(r0.s, r0.io)
                       ELSE r0
             IN  IF ~r1.ok THEN r1
                 ELSE R([write_slot(r1.s, r1.s.disk_count, item)
                            EXCEPT !.disk_count = r1.s.disk_count + 1],
                        TRUE, r1.io)
        ELSE r0

\* Mutant of add_to_memory: the RAM buffer is never used
add_to_memory_never(s) == FALSE

\* The branch of add_result: TRUE when the record goes to the RAM buffer
add_to_memory(s) ==
    /\ s.memory_buffer_capacity # 0
    /\ Len(s.memory_buffer) < s.memory_buffer_capacity

\* add_result
add_result(s, item, io) ==
    LET r == IF add_to_memory(s)
             THEN R([s EXCEPT !.memory_buffer = Append(s.memory_buffer, item)], TRUE, io)
             ELSE write_to_disk(s, item, io)
    IN  IF ~r.ok THEN r
        ELSE R([r.s EXCEPT !.total_count = r.s.total_count + 1], TRUE, r.io)

\* for item in results { self.add_result(item)?; }
RECURSIVE add_each(_, _, _)
add_each(s, items, io) ==
    IF items = <<>> THEN R(s, TRUE, io)
    ELSE LET r == add_result(s, Head(items), io)
         IN  IF ~r.ok THEN r ELSE add_each(r.s, Tail(items), r.io)

\* The read of slot disk_index through the mapping (get_results, keep_only)
read_slot(s, disk_index) == slot_of(s.fs_data, disk_index)

\* Mutant of item_at: the disk index is not made relative to the seam
item_at_no_offset(s, i) ==
    IF i < Len(s.memory_buffer) THEN <<s.memory_buffer[i + 1]>>
    ELSE IF IsSome(s.mmap) THEN <<read_slot(s, i)>>
    ELSE <<>>

\* The body of the loops of get_results and keep_only_results: the records
\* pushed for logical index i (none when the mapping is gone)
item_at(s, i) ==
    IF i < Len(s.memory_buffer) THEN <<s.memory_buffer[i + 1]>>
    ELSE IF IsSome(s.mmap) THEN <<read_slot(s, i - Len(s.memory_buffer))>>
    ELSE <<>>

RECURSIVE collect(_, _, _)
collect(s, i, end) ==
    IF i >= end THEN <<>> ELSE item_at(s, i) \o collect(s, i + 1, end)

\* get_results(start, size); it never returns Err
get_results(s, start, size) ==
    LET end == Min(start + size, s.total_count)
    IN  IF start >= s.total_count THEN <<>> ELSE collect(s, start, end)

\* get_all_results
get_all_results(s) == get_results(s, 0, s.total_count)

\* memory_count
memory_count(s) == Len(s.memory_buffer)

\* Mutant of clear: disk_count is not reset
clear_keeps_disk_count(s) == [s EXCEPT !.memory_buffer = <<>>, !.total_count = 0]

\* clear
clear(s) == [s EXCEPT !.memory_buffer = <<>>, !.total_count = 0, !.disk_count = 0]

\* Mutant of clear_disk: the file is unlinked before the mapping and the
\* handle are dropped
clear_disk_unlinks_first(s, io) ==
    IF IsSome(s.disk_file_path) /\ s.fs_exists /\ io = 0 THEN R(s, FALSE, 0)
    ELSE LET s1  == IF IsSome(s.disk_file_path) /\ s.fs_exists THEN unlinked(s) ELSE s
             io2 == IF IsSome(s.disk_file_path) /\ s.fs_exists THEN io - 1 ELSE io
         IN  R([drop_disk_file(drop_mmap(s1))
                   EXCEPT !.disk_file_path = <<>>, !.disk_count = 0], TRUE, io2)

\* clear_disk
clear_disk(s, io) ==
    LET s1 == drop_disk_file(drop_mmap(s))
    IN  IF IsSome(s1.disk_file_path) /\ s1.fs_exists /\ io = 0 THEN R(s1, FALSE, 0)
        ELSE LET s2  == IF IsSome(s1.disk_file_path) /\ s1.fs_exists THEN unlinked(s1) ELSE s1
                 io2 == IF IsSome(s1.disk_file_path) /\ s1.fs_exists THEN io - 1 ELSE io
             IN  R([s2 EXCEPT !.disk_file_path = <<>>, !.disk_count = 0], TRUE, io2)

\* destroy
destroy(s, io) ==
    LET s1 == [s EXCEPT !.memory_buffer = <<>>, !.total_count = 0, !.disk_count = 0]
    IN  IF IsSome(s1.disk_file_path)
        THEN LET s2 == drop_disk_file(drop_mmap(s1))
             IN  IF s2.fs_exists
                 THEN IF io = 0 THEN R(s2, FALSE, 0)
                      ELSE R([unlinked(s2) EXCEPT !.disk_file_path = <<>>], TRUE, io - 1)
                 ELSE R([s2 EXCEPT !.disk_file_path = <<>>], TRUE, io)
        ELSE R(s1, TRUE, io)

\* Mutant of update_result: the index is not checked against total_count
update_result_unchecked(s, index, item) ==
    IF index < Len(s.memory_buffer)
    THEN R([s EXCEPT !.memory_buffer[index + 1] = item], TRUE, 0)
    ELSE IF IsSome(s.mmap)
    THEN R(write_slot(s, index - Len(s.memory_buffer), item), TRUE, 0)
    ELSE R(s, TRUE, 0)

\* Drop for FuzzySearchResultManager: let _ = self.destroy(); then the
\* fields are dropped in the order of their declaration, disk_file before
\* mmap
drop_store(s, io) == drop_mmap(drop_disk_file(destroy(s, io).s))

\* update_result
update_result(s, index, item) ==
    IF index >= s.total_count THEN R(s, FALSE, 0)
    ELSE IF index < Len(s.memory_buffer)
    THEN R([s EXCEPT !.memory_buffer[index + 1] = item], TRUE, 0)
    ELSE IF IsSome(s.mmap)
    THEN R(write_slot(s, index - Len(s.memory_buffer), item), TRUE, 0)
    ELSE R(s, TRUE, 0)

\* Mutant of replace_all: the store is not cleared first
replace_all_no_clear(s, results, io) == add_each(s, results, io)

\* replace_all
replace_all(s, results, io) == add_each(clear(s), results, io)

\* Mutant of remove_disk_item: the tail is not copied to the left
remove_disk_item_no_copy(s, disk_index) ==
    IF disk_index >= s.disk_count THEN R(s, FALSE, 0)
    ELSE IF IsSome(s.mmap)
    THEN R([s EXCEPT !.disk_count = s.disk_count - 1], TRUE, 0)
    ELSE R(s, TRUE, 0)

\* remove_disk_item: std::ptr::copy of the tail, one slot to the left
remove_disk_item(s, disk_index) ==
    IF disk_index >= s.disk_count THEN R(s, FALSE, 0)
    ELSE IF IsSome(s.mmap)
    THEN LET move_count == s.disk_count - disk_index - 1
             moved == [k \in 1 .. Len(s.fs_data) |->
                          IF k >= disk_index + 1 /\ k <= disk_index + move_count
                             /\ k + 1 <= Len(s.fs_data)
                          THEN s.fs_data[k + 1] ELSE s.fs_data[k]]
         IN  R([s EXCEPT !.fs_data = moved, !.disk_count = s.disk_count - 1,
                         !.ub = s.ub \/ s.disk_count > Len(s.fs_data)], TRUE, 0)
    ELSE R(s, TRUE, 0)

\* remove_result
remove_result(s, index) ==
    IF index >= s.total_count THEN R(s, FALSE, 0)
    ELSE LET r == IF index < Len(s.memory_buffer)
                  THEN R([s EXCEPT !.memory_buffer = vec_remove(s.memory_buffer, index)], TRUE, 0)
                  ELSE remove_disk_item(s, index - Len(s.memory_buffer))
         IN  IF ~r.ok THEN r
             ELSE R([r.s EXCEPT !.total_count = r.s.total_count - 1], TRUE, 0)

\* The loop of remove_memory_batch from read_pos on; the result is the
\* buffer after truncate(write_pos)
RECURSIVE memory_compact(_, _, _, _)
memory_compact(buf, dels, read_pos, write_pos) ==
    IF read_pos >= Len(buf) THEN SubSeq(buf, 1, write_pos)
    ELSE IF dels # <<>> /\ read_pos = Head(dels)
    THEN memory_compact(buf, Tail(dels), read_pos + 1, write_pos)
    ELSE memory_compact(IF write_pos # read_pos
                        THEN [buf EXCEPT ![write_pos + 1] = buf[read_pos + 1]]
                        ELSE buf,
                        dels, read_pos + 1, write_pos + 1)

\* Mutant of remove_memory_batch: only the first listed record is removed
remove_memory_batch_first_only(s, sorted_indices) ==
    IF sorted_indices = <<>> \/ s.memory_buffer = <<>> THEN s
    ELSE IF sorted_indices[1] >= Len(s.memory_buffer) THEN s
    ELSE [s EXCEPT !.memory_buffer = vec_remove(s.memory_buffer, sorted_indices[1])]

\* remove_memory_batch
remove_memory_batch(s, sorted_indices) ==
    IF sorted_indices = <<>> \/ s.memory_buffer = <<>> THEN s
    ELSE IF sorted_indices[1] >= Len(s.memory_buffer) THEN s
    ELSE [s EXCEPT !.memory_buffer =
             memory_compact(s.memory_buffer, sorted_indices,
                            sorted_indices[1], sorted_indices[1])]

\* Mutant of copy_step: source and destination are exchanged
copy_step_reversed(write_pos, read_pos) ==
    IF write_pos # read_pos
    THEN <<[write_pos |-> read_pos, read_pos |-> write_pos]>>
    ELSE <<>>

\* The copy one iteration makes, if it makes one: from slot read_pos to
\* slot write_pos
copy_step(write_pos, read_pos) ==
    IF write_pos # read_pos
    THEN <<[write_pos |-> write_pos, read_pos |-> read_pos]>>
    ELSE <<>>

\* ptr::copy_nonoverlapping of one record for each of the copies
copy_nonoverlapping(data, copies) ==
    IF copies = <<>> THEN data
    ELSE slot_set(data, copies[1].write_pos, slot_of(data, copies[1].read_pos))

\* The loop of remove_disk_batch from read_pos on: the file contents and
\* the final write_pos; and, of the iterations made, the positions read_pos
\* took (visited) and the copies, each from slot read_pos to slot write_pos
RECURSIVE disk_compact(_, _, _, _, _)
disk_compact(data, dels, read_pos, write_pos, count) ==
    IF read_pos >= count
    THEN [data |-> data, write_pos |-> write_pos, visited |-> <<>>, copies |-> <<>>]
    ELSE IF dels # <<>> /\ Head(dels) < count /\ read_pos = Head(dels)
    THEN [disk_compact(data, Tail(dels), read_pos + 1, write_pos, count)
             EXCEPT !.visited = <<read_pos>> \o @]
    ELSE [disk_compact(copy_nonoverlapping(data, copy_step(write_pos, read_pos)),
                       IF dels # <<>> /\ Head(dels) >= count THEN <<>> ELSE dels,
                       read_pos + 1, write_pos + 1, count)
             EXCEPT !.visited = <<read_pos>> \o @,
                    !.copies = copy_step(write_pos, read_pos) \o @]

\* Mutant of remove_disk_batch: disk_count is not set to write_pos
remove_disk_batch_keeps_count(s, sorted_disk_indices) ==
    IF sorted_disk_indices = <<>> \/ s.disk_count = 0 THEN s
    ELSE IF IsNone(s.mmap) THEN s
    ELSE IF sorted_disk_indices[1] >= s.disk_count THEN s
    ELSE LET c == disk_compact(s.fs_data, sorted_disk_indices,
                               sorted_disk_indices[1], sorted_disk_indices[1],
                               s.disk_count)
         IN  [s EXCEPT !.fs_data = c.data]

\* remove_disk_batch
remove_disk_batch(s, sorted_disk_indices) ==
    IF sorted_disk_indices = <<>> \/ s.disk_count = 0 THEN s
    ELSE IF IsNone(s.mmap) THEN s
    ELSE IF sorted_disk_indices[1] >= s.disk_count THEN s
    ELSE LET c == disk_compact(s.fs_data, sorted_disk_indices,
                               sorted_disk_indices[1], sorted_disk_indices[1],
                               s.disk_count)
         IN  [s EXCEPT !.fs_data = c.data, !.disk_count = c.write_pos,
                       !.ub = s.ub \/ s.disk_count > Len(s.fs_data)]

\* Mutant of batch_indices: the list is not deduplicated
batch_indices_no_dedup(s, indices) ==
    LET InRange == {idx \in SeqToSet(indices) : idx < s.total_count}
    IN  retain(sort_unstable(indices), InRange)

\* The list remove_results_batch works on: sorted, deduplicated, in range
batch_indices(s, indices) ==
    LET InRange == {idx \in SeqToSet(indices) : idx < s.total_count}
    IN  retain(dedup(sort_unstable(indices)), InRange)

\* remove_results_batch; it never returns Err
remove_results_batch(s, indices) ==
    IF indices = <<>> THEN s
    ELSE LET kept == batch_indices(s, indices)
         IN  IF kept = <<>> THEN s
             ELSE LET delete_count == Len(kept)
                      memory_len == Len(s.memory_buffer)
                      InMemory == {idx \in SeqToSet(kept) : idx < memory_len}
                      OnDisk == {idx \in SeqToSet(kept) : ~(idx < memory_len)}
                      memory_indices == retain(kept, InMemory)
                      disk_indices == retain(kept, OnDisk)
                      s1 == IF memory_indices # <<>>
                            THEN remove_memory_batch(s, memory_indices)
                            ELSE s
                      s2 == IF disk_indices # <<>>
                            THEN remove_disk_batch(s1,
                                    [k \in 1 .. Len(disk_indices) |->
                                        disk_indices[k] - memory_len])
                            ELSE s1
                  IN  [s2 EXCEPT !.total_count = s2.total_count - delete_count]

\* The rebuild branch of keep_only_results reads the records to keep
RECURSIVE kept_items(_, _)
kept_items(s, keep_indices) ==
    IF keep_indices = <<>> THEN <<>>
    ELSE (IF Head(keep_indices) >= s.total_count THEN <<>>
          ELSE item_at(s, Head(keep_indices)))
         \o kept_items(s, Tail(keep_indices))

\* The choice of strategy in keep_only_results
use_rebuild(keep_count, remove_count) == keep_count <= remove_count

\* Mutant of keep_only_results: a list that leaves nothing to remove by its
\* length is handled like any other
keep_only_results_no_shortcut(s, keep_indices, io) ==
    IF keep_indices = <<>>
    THEN R([s EXCEPT !.memory_buffer = <<>>, !.disk_count = 0, !.total_count = 0], TRUE, io)
    ELSE LET keep_count == Len(keep_indices)
             remove_count == IF s.total_count >= keep_count
                             THEN s.total_count - keep_count ELSE 0
         IN  IF use_rebuild(keep_count, remove_count)
             THEN LET items == kept_items(s, sort_unstable(keep_indices))
                      s1 == [s EXCEPT !.memory_buffer = <<>>, !.disk_count = 0,
                                      !.total_count = 0]
                  IN  add_each(s1, items, io)
             ELSE LET keep_set == SeqToSet(keep_indices)
                      NotKept == {i \in 0 .. s.total_count - 1 : i \notin keep_set}
                      remove_indices == retain([k \in 1 .. s.total_count |-> k - 1], NotKept)
                  IN  R(remove_results_batch(s, remove_indices), TRUE, io)

\* keep_only_results
keep_only_results(s, keep_indices, io) ==
    IF keep_indices = <<>>
    THEN R([s EXCEPT !.memory_buffer = <<>>, !.disk_count = 0, !.total_count = 0], TRUE, io)
    ELSE LET keep_count == Len(keep_indices)
             remove_count == IF s.total_count >= keep_count
                             THEN s.total_count - keep_count ELSE 0
         IN  IF remove_count = 0 THEN R(s, TRUE, io)
             ELSE IF use_rebuild(keep_count, remove_count)
             THEN LET items == kept_items(s, sort_unstable(keep_indices))
                      s1 == [s EXCEPT !.memory_buffer = <<>>, !.disk_count = 0,
                                      !.total_count = 0]
                  IN  add_each(s1, items, io)
             ELSE LET keep_set == SeqToSet(keep_indices)
                      NotKept == {i \in 0 .. s.total_count - 1 : i \notin keep_set}
                      remove_indices == retain([k \in 1 .. s.total_count |-> k - 1], NotKept)
                  IN  R(remove_results_batch(s, remove_indices), TRUE, io)

---------------------------------------------------------------------------
(* ExactSearchResultManager (search/result_manager/exact.rs): the sibling  *)
(* of the fuzzy store with a narrower record.  Its container has the shape *)
(* of the fuzzy store's: the same operations on a record of the same       *)
(* fields, with a spill file of its own.                                   *)

exact_new(memory_buffer_size) == new(memory_buffer_size)
exact_clear(s) == clear(s)
exact_clear_disk(s, io) == clear_disk(s, io)
exact_add_result(s, item, io) == add_result(s, item, io)
exact_get_results(s, start, size) == get_results(s, start, size)
exact_get_all_results(s) == get_all_results(s)
exact_remove_result(s, index) == remove_result(s, index)
exact_remove_results_batch(s, indices) == remove_results_batch(s, indices)
exact_keep_only_results(s, keep_indices, io) == keep_only_results(s, keep_indices, io)

---------------------------------------------------------------------------
(* SearchResultManager (search/result_manager.rs): a record                *)
(* [current_mode, exact, fuzzy].  A SearchResultItem is a record           *)
(* [variant, item]; a read returns [ok, value].                            *)

Exact == "Exact"
Fuzzy == "Fuzzy"
SearchResultMode == {Exact, Fuzzy}

SearchResultItem(variant, item) == [variant |-> variant, item |-> item]

Got(ok, value) == [ok |-> ok, value |-> value]

\* SearchResultManager::new
manager_new(memory_buffer_size) ==
    [current_mode |-> Exact,
     exact        |-> exact_new(memory_buffer_size),
     fuzzy        |-> new(memory_buffer_size)]

\* SearchResultManager::clear
manager_clear(m) ==
    IF m.current_mode = Exact THEN [m EXCEPT !.exact = exact_clear(m.exact)]
    ELSE [m EXCEPT !.fuzzy = clear(m.fuzzy)]

\* Mutant of set_mode_old_store: clear() is not called before clear_disk()
set_mode_old_store_not_cleared(m, io) ==
    IF m.current_mode = Exact THEN exact_clear_disk(m.exact, io)
    ELSE clear_disk(m.fuzzy, io)

\* The old store after clear()?; and clear_disk(), whose error is logged
\* and dropped; clear never returns Err
set_mode_old_store(m, io) ==
    IF m.current_mode = Exact THEN exact_clear_disk(exact_clear(m.exact), io)
    ELSE clear_disk(clear(m.fuzzy), io)

\* Mutant of set_mode: the mode is not assigned when it changes
set_mode_stays(m, mode, io) ==
    IF mode # m.current_mode
    THEN LET old == set_mode_old_store(m, io)
         IN  R(IF m.current_mode = Exact THEN [m EXCEPT !.exact = old.s]
               ELSE [m EXCEPT !.fuzzy = old.s], TRUE, old.io)
    ELSE R(m, TRUE, io)

\* set_mode
set_mode(m, mode, io) ==
    IF mode # m.current_mode
    THEN LET old == set_mode_old_store(m, io)
         IN  R(IF m.current_mode = Exact
               THEN [m EXCEPT !.exact = old.s, !.current_mode = mode]
               ELSE [m EXCEPT !.fuzzy = old.s, !.current_mode = mode],
               TRUE, old.io)
    ELSE R([m EXCEPT !.current_mode = mode], TRUE, io)

\* In the active store
InExact(m, r) == R([m EXCEPT !.exact = r.s], r.ok, r.io)
InFuzzy(m, r) == R([m EXCEPT !.fuzzy = r.s], r.ok, r.io)

\* Mutant of manager_add_result: the item goes to the store of its own
\* variant, whatever the mode
manager_add_result_by_variant(m, item, io) ==
    IF item.variant = Exact
    THEN InExact(m, exact_add_result(m.exact, item.item, io))
    ELSE InFuzzy(m, add_result(m.fuzzy, item.item, io))

\* SearchResultManager::add_result
manager_add_result(m, item, io) ==
    IF m.current_mode = Exact /\ item.variant = Exact
    THEN InExact(m, exact_add_result(m.exact, item.item, io))
    ELSE IF m.current_mode = Fuzzy /\ item.variant = Fuzzy
    THEN InFuzzy(m, add_result(m.fuzzy, item.item, io))
    ELSE R(m, FALSE, io)

\* add_results_batch: for result in results { self.add_result(result)?; }
\* (r, the outcome of one add_result, is bound once per iteration)
RECURSIVE add_results_batch(_, _, _)
add_results_batch(m, results, io) ==
    IF results = <<>> THEN R(m, TRUE, io)
    ELSE CHOOSE out \in
            {IF ~r.ok THEN r ELSE add_results_batch(r.s, Tail(results), r.io) :
                r \in {manager_add_result(m, Head(results), io)}} : TRUE

\* Mutant of add_fuzzy_result: the mode is not checked
add_fuzzy_result_any_mode(m, item, io) == InFuzzy(m, add_result(m.fuzzy, item, io))

\* add_fuzzy_result
add_fuzzy_result(m, item, io) ==
    IF m.current_mode # Fuzzy THEN R(m, FALSE, io)
    ELSE InFuzzy(m, add_result(m.fuzzy, item, io))

\* add_fuzzy_results_batch
add_fuzzy_results_batch(m, results, io) ==
    IF m.current_mode # Fuzzy THEN R(m, FALSE, io)
    ELSE InFuzzy(m, add_each(m.fuzzy, results, io))

\* SearchResultManager::get_results: the records tagged with their variant
manager_get_results(m, start, size) ==
    LET got == IF m.current_mode = Exact
               THEN exact_get_results(m.exact, start, size)
               ELSE get_results(m.fuzzy, start, size)
    IN  Got(TRUE, [k \in 1 .. Len(got) |-> SearchResultItem(m.current_mode, got[k])])

\* SearchResultManager::total_count
manager_total_count(m) ==
    IF m.current_mode = Exact THEN m.exact.total_count ELSE m.fuzzy.total_count

\* SearchResultManager::remove_result
manager_remove_result(m, index) ==
    IF m.current_mode = Exact THEN InExact(m, exact_remove_result(m.exact, index))
    ELSE InFuzzy(m, remove_result(m.fuzzy, index))

\* SearchResultManager::remove_results_batch
manager_remove_results_batch(m, indices) ==
    IF m.current_mode = Exact
    THEN [m EXCEPT !.exact = exact_remove_results_batch(m.exact, indices)]
    ELSE [m EXCEPT !.fuzzy = remove_results_batch(m.fuzzy, indices)]

\* SearchResultManager::keep_only_results
manager_keep_only_results(m, keep_indices, io) ==
    IF m.current_mode = Exact
    THEN InExact(m, exact_keep_only_results(m.exact, keep_indices, io))
    ELSE InFuzzy(m, keep_only_results(m.fuzzy, keep_indices, io))

\* get_mode
get_mode(m) == m.current_mode

\* get_all_exact_results
get_all_exact_results(m) ==
    IF m.current_mode = Exact THEN Got(TRUE, exact_get_all_results(m.exact))
    ELSE Got(FALSE, <<>>)

\* get_all_fuzzy_results
get_all_fuzzy_results(m) ==
    IF m.current_mode = Exact THEN Got(FALSE, <<>>)
    ELSE Got(TRUE, get_all_results(m.fuzzy))

\* replace_all_fuzzy_results
replace_all_fuzzy_results(m, results, io) ==
    IF m.current_mode # Fuzzy THEN R(m, FALSE, io)
    ELSE InFuzzy(m, replace_all(m.fuzzy, results, io))

---------------------------------------------------------------------------
(* The state machine: one store and its single owning caller. *)

Self ==
    [memory_buffer          |-> memory_buffer,
     memory_buffer_capacity |-> memory_buffer_capacity,
     disk_file_path         |-> disk_file_path,
     disk_file              |-> disk_file,
     mmap                   |-> mmap,
     disk_count             |-> disk_count,
     total_count            |-> total_count,
     fs_exists              |-> fs_exists,
     fs_len                 |-> fs_len,
     fs_data                |-> fs_data,
     ub                     |-> ub,
     misordered             |-> misordered]

Becomes(s) ==
    /\ memory_buffer' = s.memory_buffer
    /\ memory_buffer_capacity' = s.memory_buffer_capacity
    /\ disk_file_path' = s.disk_file_path
    /\ disk_file' = s.disk_file
    /\ mmap' = s.mmap
    /\ disk_count' = s.disk_count
    /\ total_count' = s.total_count
    /\ fs_exists' = s.fs_exists
    /\ fs_len' = s.fs_len
    /\ fs_data' = s.fs_data
    /\ ub' = s.ub
    /\ misordered' = s.misordered

\* The byte budgets a store is built with: every capacity 0 .. MaxCap, from
\* a budget that is and one that is not a whole number of records
Budgets == {c * ITEM_SIZE + d : c \in 0 .. MaxCap, d \in {0, ITEM_SIZE - 1}}

\* Index lists: unsorted, with duplicates, with out-of-range entries
Indices == 0 .. MaxAdds
IndexLists == UNION {[1 .. n -> Indices] : n \in 0 .. MaxList}

\* The records a caller hands over: fresh ones, in the order it made them
Fresh(n) == [k \in 1 .. n |-> next_stamp + k - 1]

\* No record is under examination
NoProbe == [op |-> "none"]

IsStore(s) ==
    /\ memory_buffer = s.memory_buffer
    /\ memory_buffer_capacity = s.memory_buffer_capacity
    /\ disk_file_path = s.disk_file_path
    /\ disk_file = s.disk_file
    /\ mmap = s.mmap
    /\ disk_count = s.disk_count
    /\ total_count = s.total_count
    /\ fs_exists = s.fs_exists
    /\ fs_len = s.fs_len
    /\ fs_data = s.fs_data
    /\ ub = s.ub
    /\ misordered = s.misordered

Init ==
    /\ \E memory_buffer_size \in Budgets :
          LET m == manager_new(memory_buffer_size)
          IN  /\ IsStore(m.fuzzy)
              /\ exact = m.exact
              /\ current_mode = m.current_mode
    /\ next_stamp = 1
    /\ only_adds = TRUE
    /\ last = [op |-> "new", ok |-> TRUE, tags |-> {}]
    /\ probe = NoProbe

\* What the last call looked like: the shape of an index list handed to
\* remove_many or keep_only, seen from the store it was handed to.
\*   "messy": unsorted, with a duplicate, an out-of-range entry and an
\*            entry that addresses a record of the spill;
\*   "seam":  unsorted, distinct, all in range, with entries on both sides
\*            of the RAM/disk seam.
ListTags(s, indices) ==
    LET n == Len(indices)
        mem_len == Len(s.memory_buffer)
        dup == Cardinality(SeqToSet(indices)) < n
        oor == \E k \in 1 .. n : indices[k] >= s.total_count
        unsorted == \E k \in 1 .. n - 1 : indices[k] > indices[k + 1]
        mem == \E k \in 1 .. n : indices[k] < mem_len
        disk == \E k \in 1 .. n : indices[k] >= mem_len /\ indices[k] < s.total_count
    IN  (IF unsorted /\ dup /\ oor /\ disk THEN {"messy"} ELSE {})
        \cup (IF unsorted /\ ~dup /\ ~oor /\ mem /\ disk THEN {"seam"} ELSE {})

\* A call on the store or the manager; no record is under examination
CalledWith(op, ok, tags) ==
    /\ last' = [op |-> op, ok |-> ok, tags |-> tags]
    /\ only_adds' = (only_adds /\ op = "add" /\ ok)
    /\ UNCHANGED probe

Called(op, ok) == CalledWith(op, ok, {})

\* add(record)
AddResult(ios) ==
    /\ next_stamp <= MaxAdds
    /\ \E io \in ios :
         LET r == add_result(Self, next_stamp, io)
         IN  Becomes(r.s) /\ Called("add", r.ok)
    /\ next_stamp' = next_stamp + 1
    /\ UNCHANGED <<current_mode, exact>>

\* replace_all(records)
ReplaceAll(ios) ==
    \E n \in 0 .. (MaxAdds + 1 - next_stamp) : \E io \in ios :
        LET r == replace_all(Self, Fresh(n), io)
        IN  /\ Becomes(r.s) /\ Called("replace_all", r.ok)
            /\ next_stamp' = next_stamp + n
            /\ UNCHANGED <<current_mode, exact>>

\* remove(i)
RemoveResult ==
    \E index \in Indices :
        LET r == remove_result(Self, index)
        IN  /\ Becomes(r.s) /\ Called("remove", r.ok)
            /\ UNCHANGED <<next_stamp, current_mode, exact>>

\* remove_many(indices)
RemoveResultsBatch ==
    \E indices \in IndexLists :
        /\ Becomes(remove_results_batch(Self, indices))
        /\ CalledWith("remove_many", TRUE, ListTags(Self, indices))
        /\ UNCHANGED <<next_stamp, current_mode, exact>>

\* keep_only(indices)
KeepOnlyResults(ios) ==
    \E keep_indices \in IndexLists : \E io \in ios :
        LET r == keep_only_results(Self, keep_indices, io)
        IN  /\ Becomes(r.s)
            /\ CalledWith("keep_only", r.ok, ListTags(Self, keep_indices))
            /\ UNCHANGED <<next_stamp, current_mode, exact>>

\* update(i, record)
UpdateResult ==
    /\ next_stamp <= MaxAdds
    /\ \E index \in Indices :
         LET r == update_result(Self, index, next_stamp)
         IN  Becomes(r.s) /\ Called("update", r.ok)
    /\ next_stamp' = next_stamp + 1
    /\ UNCHANGED <<current_mode, exact>>

\* clear()
Clear ==
    /\ Becomes(clear(Self)) /\ Called("clear", TRUE)
    /\ UNCHANGED <<next_stamp, current_mode, exact>>

\* What a release call (clear_disk, destroy) found:
\*   "live": the mapping, the handle and the file were all there;
\*   "torn": the handle was there without a mapping (a growth had failed).
ReleaseTags ==
    (IF IsSome(mmap) /\ IsSome(disk_file) /\ fs_exists THEN {"live"} ELSE {})
    \cup (IF IsNone(mmap) /\ IsSome(disk_file) THEN {"torn"} ELSE {})

\* clear_disk()
ClearDisk(ios) ==
    \E io \in ios :
        LET r == clear_disk(Self, io)
        IN  /\ Becomes(r.s) /\ CalledWith("clear_disk", r.ok, ReleaseTags)
            /\ UNCHANGED <<next_stamp, current_mode, exact>>

\* destroy()
Destroy(ios) ==
    \E io \in ios :
        LET r == destroy(Self, io)
        IN  /\ Becomes(r.s) /\ CalledWith("destroy", r.ok, ReleaseTags)
            /\ UNCHANGED <<next_stamp, current_mode, exact>>

\* Every operation of the store, with system calls that may fail
Next ==
    \/ AddResult(IoAny)
    \/ ReplaceAll(IoAny)
    \/ RemoveResult
    \/ RemoveResultsBatch
    \/ KeepOnlyResults(IoAny)
    \/ UpdateResult
    \/ Clear
    \/ ClearDisk(IoAny)
    \/ Destroy(IoAny)

Spec == Init /\ [][Next]_vars

\* add, remove, remove_many, keep_only and replace_all; no system call fails
NextCore ==
    \/ AddResult(IoOk)
    \/ ReplaceAll(IoOk)
    \/ RemoveResult
    \/ RemoveResultsBatch
    \/ KeepOnlyResults(IoOk)

SpecCore == Init /\ [][NextCore]_vars

\* The same five operations; file creation, extension and mapping may fail
NextIo ==
    \/ AddResult(IoAny)
    \/ ReplaceAll(IoAny)
    \/ RemoveResult
    \/ RemoveResultsBatch
    \/ KeepOnlyResults(IoAny)

SpecIo == Init /\ [][NextIo]_vars

\* The single-record operations and the two whole-store ones that keep
\* the spill: add, update, remove, clear, replace_all; no system call fails
NextEdit ==
    \/ AddResult(IoOk)
    \/ UpdateResult
    \/ RemoveResult
    \/ Clear
    \/ ReplaceAll(IoOk)

SpecEdit == Init /\ [][NextEdit]_vars

\* Every operation of the store; no system call fails
NextOk ==
    \/ AddResult(IoOk)
    \/ ReplaceAll(IoOk)
    \/ RemoveResult
    \/ RemoveResultsBatch
    \/ KeepOnlyResults(IoOk)
    \/ UpdateResult
    \/ Clear
    \/ ClearDisk(IoOk)
    \/ Destroy(IoOk)

SpecOk == Init /\ [][NextOk]_vars

\* Every operation of the store that takes no index list; no system call
\* fails
NextSingle ==
    \/ AddResult(IoOk)
    \/ ReplaceAll(IoOk)
    \/ RemoveResult
    \/ UpdateResult
    \/ Clear
    \/ ClearDisk(IoOk)
    \/ Destroy(IoOk)

SpecSingle == Init /\ [][NextSingle]_vars

\* The same seven operations, with system calls that may fail
NextSingleIo ==
    \/ AddResult(IoAny)
    \/ ReplaceAll(IoAny)
    \/ RemoveResult
    \/ UpdateResult
    \/ Clear
    \/ ClearDisk(IoAny)
    \/ Destroy(IoAny)

SpecSingleIo == Init /\ [][NextSingleIo]_vars
---------------------------------------------------------------------------
(* The state machine of the manager: the two stores behind the mode. *)

Manager == [current_mode |-> current_mode, exact |-> exact, fuzzy |-> Self]

ManagerBecomes(m) ==
    /\ current_mode' = m.current_mode
    /\ exact' = m.exact
    /\ Becomes(m.fuzzy)

\* The records of a batch: fresh ones, each of a variant the caller chose
FreshItems(variants) ==
    [k \in 1 .. Len(variants) |-> SearchResultItem(variants[k], next_stamp + k - 1)]

\* "mismatch": the call was made in a mode it is not for
Mismatch(wrong) == IF wrong THEN {"mismatch"} ELSE {}

\* What a set_mode call looked like:
\*   "swallowed": the mode changed and clear_disk of the old store failed;
\*   "spilled":   the mode changed and the old store held records both in
\*                RAM and in its spill file.
SwitchTags(mode, io) ==
    LET old == IF current_mode = Exact THEN exact ELSE Self
    IN  (IF mode # current_mode /\ ~set_mode_old_store(Manager, io).ok
         THEN {"swallowed"} ELSE {})
        \cup (IF mode # current_mode /\ old.disk_count > 0 /\ memory_count(old) > 0
              THEN {"spilled"} ELSE {})

\* set_mode(mode)
SetMode(ios) ==
    \E mode \in SearchResultMode : \E io \in ios :
        LET r == set_mode(Manager, mode, io)
        IN  /\ ManagerBecomes(r.s)
            /\ CalledWith("set_mode", r.ok, SwitchTags(mode, io))
            /\ UNCHANGED next_stamp

\* clear() of the manager
ManagerClear ==
    /\ ManagerBecomes(manager_clear(Manager)) /\ Called("manager_clear", TRUE)
    /\ UNCHANGED next_stamp

\* add_result(item) of the manager
ManagerAddResult(ios) ==
    /\ next_stamp <= MaxAdds
    /\ \E variant \in SearchResultMode : \E io \in ios :
         LET r == manager_add_result(Manager, SearchResultItem(variant, next_stamp), io)
         IN  /\ ManagerBecomes(r.s)
             /\ CalledWith("manager_add", r.ok, Mismatch(variant # current_mode))
    /\ next_stamp' = next_stamp + 1

\* add_results_batch(results)
AddResultsBatch(ios) ==
    \E n \in 0 .. (MaxAdds + 1 - next_stamp) :
        \E variants \in [1 .. n -> SearchResultMode] : \E io \in ios :
            LET r == add_results_batch(Manager, FreshItems(variants), io)
            IN  /\ ManagerBecomes(r.s) /\ Called("add_batch", r.ok)
                /\ next_stamp' = next_stamp + n

\* add_fuzzy_result(item)
AddFuzzyResult(ios) ==
    /\ next_stamp <= MaxAdds
    /\ \E io \in ios :
         LET r == add_fuzzy_result(Manager, next_stamp, io)
         IN  /\ ManagerBecomes(r.s)
             /\ CalledWith("add_fuzzy", r.ok, Mismatch(current_mode # Fuzzy))
    /\ next_stamp' = next_stamp + 1

\* add_fuzzy_results_batch(results)
AddFuzzyResultsBatch(ios) ==
    \E n \in 0 .. (MaxAdds + 1 - next_stamp) : \E io \in ios :
        LET r == add_fuzzy_results_batch(Manager, Fresh(n), io)
        IN  /\ ManagerBecomes(r.s)
            /\ CalledWith("add_fuzzy_batch", r.ok, Mismatch(current_mode # Fuzzy))
            /\ next_stamp' = next_stamp + n

\* replace_all_fuzzy_results(results)
ReplaceAllFuzzyResults(ios) ==
    \E n \in 0 .. (MaxAdds + 1 - next_stamp) : \E io \in ios :
        LET r == replace_all_fuzzy_results(Manager, Fresh(n), io)
        IN  /\ ManagerBecomes(r.s)
            /\ CalledWith("replace_all_fuzzy", r.ok, Mismatch(current_mode # Fuzzy))
            /\ next_stamp' = next_stamp + n

\* remove_result(index) of the manager
ManagerRemoveResult ==
    \E index \in Indices :
        LET r == manager_remove_result(Manager, index)
        IN  /\ ManagerBecomes(r.s) /\ Called("manager_remove", r.ok)
            /\ UNCHANGED next_stamp

\* remove_results_batch(indices) of the manager
ManagerRemoveResultsBatch ==
    \E indices \in IndexLists :
        \E m \in {manager_remove_results_batch(Manager, indices)} :
            /\ ManagerBecomes(m)
            /\ Called("manager_remove_many", TRUE)
            /\ UNCHANGED next_stamp

\* keep_only_results(keep_indices) of the manager
ManagerKeepOnlyResults(ios) ==
    \E keep_indices \in IndexLists : \E io \in ios :
        \E r \in {manager_keep_only_results(Manager, keep_indices, io)} :
            /\ ManagerBecomes(r.s) /\ Called("manager_keep_only", r.ok)
            /\ UNCHANGED next_stamp

\* get_all_exact_results(): a read
GetAllExactResults ==
    /\ CalledWith("get_all_exact", get_all_exact_results(Manager).ok,
                  Mismatch(current_mode # Exact))
    /\ ManagerBecomes(Manager)
    /\ UNCHANGED next_stamp

\* get_all_fuzzy_results(): a read
GetAllFuzzyResults ==
    /\ CalledWith("get_all_fuzzy", get_all_fuzzy_results(Manager).ok,
                  Mismatch(current_mode # Fuzzy))
    /\ ManagerBecomes(Manager)
    /\ UNCHANGED next_stamp

\* The mode switch, in which the unlink of the old store's spill file may
\* fail, and the operations on single records, the typed batches, clear
\* and the typed reads, in which no system call fails
NextMux ==
    \/ SetMode(IoAny)
    \/ ManagerClear
    \/ ManagerAddResult(IoOk)
    \/ AddResultsBatch(IoOk)
    \/ AddFuzzyResult(IoOk)
    \/ AddFuzzyResultsBatch(IoOk)
    \/ ReplaceAllFuzzyResults(IoOk)
    \/ ManagerRemoveResult
    \/ GetAllExactResults
    \/ GetAllFuzzyResults

SpecMux == Init /\ [][NextMux]_vars

\* Every operation of the manager
NextMuxAll ==
    \/ NextMux
    \/ ManagerRemoveResultsBatch
    \/ ManagerKeepOnlyResults(IoOk)

SpecMuxAll == Init /\ [][NextMuxAll]_vars

---------------------------------------------------------------------------
(* The record and its predicates: the arguments of a call are drawn in the
   initial state, the actions make the call. *)

\* The store is there and empty while a record is examined
IdleStore ==
    LET m == manager_new(0)
    IN  /\ IsStore(m.fuzzy) /\ exact = m.exact /\ current_mode = m.current_mode
        /\ next_stamp = 1 /\ only_adds = TRUE
        /\ last = [op |-> "new", ok |-> TRUE, tags |-> {}]

StoreUntouched ==
    UNCHANGED <<memory_buffer, memory_buffer_capacity, disk_file_path, disk_file,
                mmap, disk_count, total_count, fs_exists, fs_len, fs_data, ub,
                misordered, current_mode, exact, next_stamp, only_adds, last>>

\* Bytes at the edges of a u8: zero, one, the sign bit alone, all bits set
EdgeBytes == {0, 1, BYTE_MOD \div 2, BYTE_MOD - 1}

\* Slices of every length 0 .. MaxSlice: one fill byte, one byte that stands
\* out at some position
Slices ==
    {[i \in 1 .. n |-> IF i = k THEN x ELSE f] :
        n \in 0 .. MaxSlice, k \in 1 .. MaxSlice, x \in EdgeBytes, f \in EdgeBytes}

InitRecord ==
    /\ IdleStore
    /\ \E address \in 0 .. 1 : \E bytes \in Slices : \E value_type \in ValueType :
          probe = [op |-> "args", address |-> address, bytes |-> bytes,
                   value_type |-> value_type]

\* from_bytes(address, bytes, value_type)
FromBytes ==
    /\ probe.op = "args"
    /\ probe' = [op |-> "from_bytes", address |-> probe.address,
                 bytes |-> probe.bytes, value_type |-> probe.value_type,
                 item |-> from_bytes(probe.address, probe.bytes, probe.value_type)]
    /\ StoreUntouched

\* item.as_i64()
AsI64 ==
    /\ probe.op = "from_bytes"
    /\ probe' = [op |-> "as_i64", item |-> probe.item, result |-> as_i64(probe.item)]
    /\ StoreUntouched

\* item.as_f64() of a Float or Double record (an integer record's value
\* widened to f64 may lie off the grid of the float model)
AsF64 ==
    /\ probe.op = "from_bytes"
    /\ is_float_type(probe.item.value_type)
    /\ probe' = [op |-> "as_f64", item |-> probe.item, result |-> as_f64(probe.item)]
    /\ StoreUntouched

\* item.value_size()
ValueSize ==
    /\ probe.op = "from_bytes"
    /\ probe' = [op |-> "value_size", item |-> probe.item,
                 result |-> value_size(probe.item)]
    /\ StoreUntouched

NextRecord ==
    \/ FromBytes
    \/ AsI64
    \/ AsF64
    \/ ValueSize

SpecRecord == InitRecord /\ [][NextRecord]_vars

\* v.to_le_bytes() of an integer of n bytes, as a caller samples it
to_le_bytes(v, n) ==
    [i \in 1 .. n |-> ((v + int_mod(n)) \div (BYTE_MOD ^ (i - 1))) % BYTE_MOD]

\* Integers of n bytes: the ends of the range and their neighbours, the
\* values around zero, values that an f64 cannot hold, and the values of
\* the examples
EdgeInts(n) ==
    {v \in {int_min(n), int_min(n) + 1, 0 - 3, 0 - 1, 0, 1, 50, 51, 100, 110, 111,
            int_max(n) - 3, int_max(n) - 2, int_max(n)} :
        v >= int_min(n) /\ v <= int_max(n)}

IntTypes == ValueType \ {Float, Double}

\* Amounts, range ends (i64) and percentages (in halves) of the conditions
Amounts == {I64_MIN, 0 - 1, 0, 1, 10, I64_MAX}
Ranges == {<<I64_MIN, I64_MAX>>, <<0, 10>>, <<1, 1>>, <<I64_MIN, I64_MIN>>, <<10, 0>>}
Percents == {0 - 1, 0, 1, 2, 4}

IntConditions ==
    {Initial, Unchanged, Changed, Increased, Decreased}
    \cup {IncreasedBy(k) : k \in Amounts} \cup {DecreasedBy(k) : k \in Amounts}
    \cup {IncreasedByRange(r[1], r[2]) : r \in Ranges}
    \cup {DecreasedByRange(r[1], r[2]) : r \in Ranges}
    \cup {IncreasedByPercent(p) : p \in Percents}
    \cup {DecreasedByPercent(p) : p \in Percents}

\* The bytes of the float of n bytes with the given sign, exponent field
\* and mantissa field
float_to_le_bytes(sign, e, frac, n) ==
    LET mant_bits == n * ByteBits - 1 - EXP_BITS
    IN  to_le_bytes((sign * 2 ^ EXP_BITS + e) * 2 ^ mant_bits + frac, n)

\* Floats of n bytes: both signs; zero and subnormals, 1.0 and its
\* neighbours, the largest binade, infinities and NaN; mantissas 0, the
\* smallest step, the subnormal that equals epsilon, and one half
EdgeFloats(n) ==
    {float_to_le_bytes(sign, e, frac, n) :
        sign \in {0, 1},
        e \in {0, EXP_BIAS, 2 ^ EXP_BITS - 2, 2 ^ EXP_BITS - 1},
        frac \in {0, 1, epsilon.v \div 2 ^ (GRID + 2 - EXP_BIAS - n * ByteBits + EXP_BITS),
                  2 ^ (n * ByteBits - EXP_BITS - 2)}}

FloatConditions ==
    {Initial, Unchanged, Changed, Increased, Decreased}
    \cup {IncreasedBy(k) : k \in {0 - 1, 0, 1}} \cup {DecreasedBy(k) : k \in {0 - 1, 0, 1}}
    \cup {IncreasedByRange(r[1], r[2]) : r \in {<<0, 1>>, <<0 - 1, 0>>}}
    \cup {DecreasedByRange(r[1], r[2]) : r \in {<<0, 1>>, <<0 - 1, 0>>}}
    \cup {IncreasedByPercent(p) : p \in {0, 1}}
    \cup {DecreasedByPercent(p) : p \in {0, 1}}

\* A stored record, the bytes sampled anew, a condition, and whether the
\* build checks integer overflow
InitMatch ==
    /\ IdleStore
    /\ \E value_type \in ValueType :
         LET n == type_size(value_type)
         IN  \/ /\ value_type \in IntTypes
                /\ \E old \in EdgeInts(n) : \E new_val \in EdgeInts(n) :
                   \E condition \in IntConditions : \E overflow_checks \in BOOLEAN :
                      probe = [op |-> "args",
                               item |-> from_bytes(0, to_le_bytes(old, n), value_type),
                               new_bytes |-> to_le_bytes(new_val, n),
                               condition |-> condition,
                               overflow_checks |-> overflow_checks]
             \/ /\ is_float_type(value_type)
                /\ \E old \in EdgeFloats(n) : \E new_bytes \in EdgeFloats(n) :
                   \E condition \in FloatConditions :
                      probe = [op |-> "args",
                               item |-> from_bytes(0, old, value_type),
                               new_bytes |-> new_bytes,
                               condition |-> condition,
                               overflow_checks |-> FALSE]

\* item.matches_condition(new_bytes, condition)
MatchesCondition ==
    /\ probe.op = "args"
    /\ probe' = [probe EXCEPT !.op = "matches_condition"] @@
                [result |-> matches_condition(probe.item, probe.new_bytes,
                                              probe.condition, probe.overflow_checks)]
    /\ StoreUntouched

\* item.with_new_value(new_bytes): a record that matched takes the new value
WithNewValue ==
    /\ probe.op = "matches_condition"
    /\ ~probe.result.panicked /\ probe.result.value
    /\ probe' = [op |-> "with_new_value",
                 item |-> with_new_value(probe.item, probe.new_bytes)]
    /\ StoreUntouched

NextMatch ==
    \/ MatchesCondition
    \/ WithNewValue

SpecMatch == InitMatch /\ [][NextMatch]_vars

---------------------------------------------------------------------------
(* What the claims speak about. *)

\* The logical sequence as get_all returns it
All == get_all_results(Self)

\* The record stored at the position logical index i maps to: RAM position
\* i when i < memory_count, else spill position i - memory_count
stored_at(s, i) ==
    IF i < Len(s.memory_buffer) THEN s.memory_buffer[i + 1]
    ELSE slot_of(s.fs_data, i - Len(s.memory_buffer))

\* seq without the elements at the (0-based) positions in D
without(seq, D) ==
    LET Stays(k) == (k - 1) \notin D
        idx == SelectSeq([k \in 1 .. Len(seq) |-> k], Stays)
    IN  [k \in 1 .. Len(idx) |-> seq[idx[k]]]

\* The record get_all returned at (0-based) index i
at(seq, i) == IF i + 1 <= Len(seq) THEN seq[i + 1] ELSE Unmapped

InRangeOf(s, indices) == {i \in SeqToSet(indices) : i < s.total_count}

Distinct(seq) == Cardinality(SeqToSet(seq)) = Len(seq)

\* An add step, and what it returned
AddStep(ok) == next_stamp' = next_stamp + 1 /\ last'.op = "add" /\ last'.ok = ok

---------------------------------------------------------------------------
(* C1..C10 *)

\* C1 (order preservation): in failure-free runs of add, remove,
\* remove_many, keep_only and replace_all, get_all returns the surviving
\* records in the order in which they were added (stamps never decrease
\* along the sequence), also for records added after a deletion on a store
\* whose spill tail is non-empty.
C1_OrderPreserved ==
    \A i, j \in 1 .. Len(All) : i < j => All[i] <= All[j]

\* C2 (count identity): in failure-free runs of the five operations,
\* total_count = memory_count + disk_count, get_all returns total_count
\* records and every index below total_count is readable.
C2_CountIdentity ==
    /\ total_count = memory_count(Self) + disk_count
    /\ Len(All) = total_count
    /\ \A i \in 0 .. total_count - 1 : Len(get_results(Self, i, 1)) = 1

C2_Witness ==
    /\ last.op \in {"remove_many", "keep_only"}
    /\ memory_count(Self) > 0 /\ disk_count > 0

\* C3 (duality): for every index list S, keep_only(S) and
\* remove_many(complement of S within 0..total_count) leave the same
\* get_all result and the same total_count.
C3_Duality ==
    \A S \in IndexLists :
        LET complement == SelectSeq([k \in 1 .. total_count |-> k - 1],
                                    LAMBDA i : i \notin SeqToSet(S))
            k == keep_only_results(Self, S, NoFail).s
            r == remove_results_batch(Self, complement)
        IN  /\ get_all_results(k) = get_all_results(r)
            /\ k.total_count = r.total_count

\* C4 (failure consistency of counters): when file creation, extension or
\* mapping may fail, total_count = memory_count + disk_count in every
\* state, and after an add that returned Ok the record is readable and
\* get_all returns exactly total_count records.
C4_CountersConsistent ==
    /\ total_count = memory_count(Self) + disk_count
    /\ (last.op = "add" /\ last.ok) =>
          /\ Len(All) = total_count
          /\ (next_stamp - 1) \in SeqToSet(All)

\* C5 (failed add changes nothing): an add that returns an I/O error leaves
\* total_count, memory_count and disk_count as they were and the records at
\* all existing indices unchanged.
C5_FailedAddChangesNothing ==
    [][AddStep(FALSE) =>
          /\ total_count' = total_count
          /\ Len(memory_buffer') = Len(memory_buffer)
          /\ disk_count' = disk_count
          /\ get_all_results(Self)' = get_all_results(Self)]_vars

\* C6 (seam transparency): after L adds to a fresh store of any capacity,
\* get(i, 1) returns the i-th added record for every i < L, in RAM or in
\* the spill, so get_all does not depend on the capacity.
C6_SeamTransparency ==
    only_adds =>
        /\ \A i \in 0 .. next_stamp - 2 : get_results(Self, i, 1) = <<i + 1>>
        /\ All = [k \in 1 .. next_stamp - 1 |-> k]

C6_Witness ==
    /\ only_adds
    /\ memory_buffer_capacity > 0
    /\ memory_count(Self) = memory_buffer_capacity
    /\ disk_count > 0

C9_OutOfRangeKeepSkipped ==
    \A K \in IndexLists :
        (K # <<>> /\ Distinct(K) /\ \E k \in 1 .. Len(K) : K[k] >= total_count) =>
            LET r == keep_only_results(Self, K, NoFail)
                inrange == SelectSeq(sort_unstable(K), LAMBDA i : i < total_count)
            IN  /\ r.ok
                /\ get_all_results(r.s) = [k \in 1 .. Len(inrange) |-> at(All, inrange[k])]

\* C10 (get): in every reachable state get(start, size) returns exactly the
\* records stored at logical indices [start, min(start + size, total_count))
\* in logical order, across the seam, and the empty sequence when
\* start >= total_count.
C10_GetRange ==
    \A start \in 0 .. MaxAdds + 1 : \A size \in 0 .. MaxAdds + 1 :
        LET end == Min(start + size, total_count)
        IN  get_results(Self, start, size) =
                IF start >= total_count THEN <<>>
                ELSE [k \in 1 .. end - start |-> stored_at(Self, start + k - 1)]

---------------------------------------------------------------------------
(* C11..C20 *)

C12_OutOfRangeRejected ==
    \A i \in total_count .. MaxAdds + 1 :
        LET rm == remove_result(Self, i)
            up == update_result(Self, i, next_stamp)
        IN  /\ ~rm.ok /\ rm.s = Self
            /\ ~up.ok /\ up.s = Self

C12_Witness ==
    /\ last.op \in {"remove", "update"} /\ ~last.ok
    /\ memory_count(Self) > 0 /\ disk_count > 0

C14_ReplaceAll ==
    \A n \in 0 .. MaxAdds :
        LET records == Fresh(n)
            r == replace_all(Self, records, NoFail)
            in_memory == Min(n, memory_buffer_capacity)
        IN  /\ r = add_each(clear(Self), records, NoFail)
            /\ r.ok
            /\ get_all_results(r.s) = records
            /\ r.s.total_count = n
            /\ memory_count(r.s) = in_memory
            /\ r.s.disk_count = n - in_memory

\* replace_all over a store that was used before, ending across the seam
C14_Witness ==
    /\ last.op = "replace_all" /\ last.ok
    /\ next_stamp > total_count + 1
    /\ memory_count(Self) > 0 /\ disk_count > 0
    /\ All = [k \in 1 .. total_count |-> next_stamp - total_count + k - 1]

\* C15 (clear is logical): clear sets memory_count, disk_count and
\* total_count to 0 and leaves the spill path, file handle, mapping and
\* the file (existence, length, contents) as they were; when the store has
\* a mapping, the next disk write goes to offset 0 of the same file, which
\* keeps its length.
C15_ClearLogical ==
    LET c == clear(Self)
        w == write_to_disk(c, next_stamp, NoFail)
    IN  /\ memory_count(c) = 0 /\ c.disk_count = 0 /\ c.total_count = 0
        /\ get_all_results(c) = <<>>
        /\ c.disk_file_path = disk_file_path
        /\ c.disk_file = disk_file
        /\ c.mmap = mmap
        /\ c.fs_exists = fs_exists /\ c.fs_len = fs_len /\ c.fs_data = fs_data
        /\ IsSome(mmap) =>
              /\ w.ok
              /\ w.s.disk_count = 1
              /\ slot_of(w.s.fs_data, 0) = next_stamp
              /\ w.s.fs_len = fs_len /\ w.s.mmap = mmap
              /\ w.s.disk_file_path = disk_file_path
              /\ w.s.disk_file = disk_file

\* clear has acted on a store whose spill file had grown and held records
C15_Witness ==
    /\ last.op = "clear"
    /\ total_count = 0 /\ disk_count = 0 /\ memory_buffer = <<>>
    /\ IsSome(disk_file_path) /\ IsSome(disk_file)
    /\ fs_len > GROW_STEP /\ mmap = <<fs_len>>
    /\ slot_of(fs_data, 0) > ZeroItem /\ slot_of(fs_data, 1) > ZeroItem

\* C16 (clear_disk): after a clear_disk that returned Ok, in any state
\* (including one with disk_count > 0), the spill is absent (no mapping,
\* no file handle, no path, file unlinked), disk_count = 0, and the count
\* invariant holds: total_count = memory_count + disk_count and get_all
\* returns total_count records.
C16_ClearDisk ==
    (last.op = "clear_disk" /\ last.ok) =>
        /\ IsNone(mmap) /\ IsNone(disk_file) /\ IsNone(disk_file_path)
        /\ ~fs_exists
        /\ disk_count = 0
        /\ total_count = memory_count(Self) + disk_count
        /\ Len(All) = total_count

\* C17 (destroy is idempotent): after a destroy that returned Ok, from any
\* reachable state, total_count = memory_count = disk_count = 0 and there
\* is no spill path, file handle, mapping or spill file; a second destroy
\* returns Ok and changes nothing.
C17_DestroyIdempotent ==
    (last.op = "destroy" /\ last.ok) =>
        /\ total_count = 0 /\ memory_count(Self) = 0 /\ disk_count = 0
        /\ IsNone(disk_file_path) /\ IsNone(disk_file) /\ IsNone(mmap)
        /\ ~fs_exists
        /\ \A io \in IoAny : destroy(Self, io) = R(Self, TRUE, io)

\* The store the manager would leave on a switch: the active one
OldStore(m) == IF current_mode = Exact THEN m.exact ELSE m.fuzzy
\* The store the manager would enter on a switch: the inactive one
NewStore(m) == IF current_mode = Exact THEN m.fuzzy ELSE m.exact

SpillAbsent(s) ==
    /\ IsNone(s.disk_file_path) /\ IsNone(s.disk_file) /\ IsNone(s.mmap)
    /\ ~s.fs_exists

\* C18 (set_mode): when the unlink does not fail, set_mode(m) returns Ok
\* and, with m equal to the current mode, changes nothing in either store
\* nor the mode; with m different from the current mode it clears the
\* previously active store (total_count = 0, no records), removes that
\* store's spill file, sets the current mode to m and does not modify the
\* newly active store.
C18_SetMode ==
    \A mode \in SearchResultMode :
        LET r == set_mode(Manager, mode, NoFail)
        IN  /\ r.ok
            /\ get_mode(r.s) = mode
            /\ IF mode = current_mode
               THEN r.s = Manager
               ELSE /\ OldStore(r.s).total_count = 0
                    /\ memory_count(OldStore(r.s)) = 0
                    /\ OldStore(r.s).disk_count = 0
                    /\ get_all_results(OldStore(r.s)) = <<>>
                    /\ SpillAbsent(OldStore(r.s))
                    /\ NewStore(r.s) = NewStore(Manager)

\* A switch away from a store that held records in RAM and in its spill
C18_Witness ==
    /\ last.op = "set_mode" /\ last.ok /\ last.tags = {"spilled"}
    /\ current_mode = Exact
    /\ total_count = 0 /\ SpillAbsent(Self)

\* C19 (a failing clear_disk does not fail the switch): whenever clear_disk
\* on the old store fails during set_mode(m), set_mode still returns Ok,
\* the current mode becomes m, and the old store reports total_count = 0.
C19_SwitchSurvivesDiskFailure ==
    \A mode \in SearchResultMode \ {current_mode} : \A io \in IoAny :
        LET r == set_mode(Manager, mode, io)
        IN  ~set_mode_old_store(Manager, io).ok =>
                /\ r.ok
                /\ get_mode(r.s) = mode
                /\ OldStore(r.s).total_count = 0

\* A switch away from the fuzzy store, with records in RAM and in the
\* spill, whose unlink failed: the file is still there
C19_Witness ==
    /\ last.op = "set_mode" /\ last.ok /\ last.tags = {"swallowed", "spilled"}
    /\ current_mode = Exact
    /\ total_count = 0
    /\ fs_exists /\ IsSome(disk_file_path)

\* C20 (mode mismatches): in Exact mode add_fuzzy, add_fuzzy batch,
\* get_all_fuzzy and replace_all_fuzzy return an error; in Fuzzy mode
\* get_all_exact returns an error; the generic add returns an error when
\* the record variant differs from the current mode; in every such case
\* the mode and both stores are unchanged.
C20_MismatchRejected ==
    LET other == IF current_mode = Exact THEN Fuzzy ELSE Exact
    IN  \A io \in IoAny :
            /\ manager_add_result(Manager, SearchResultItem(other, next_stamp), io)
                   = R(Manager, FALSE, io)
            /\ current_mode = Exact =>
                   /\ add_fuzzy_result(Manager, next_stamp, io) = R(Manager, FALSE, io)
                   /\ \A n \in 0 .. MaxAdds :
                          /\ add_fuzzy_results_batch(Manager, Fresh(n), io)
                                 = R(Manager, FALSE, io)
                          /\ replace_all_fuzzy_results(Manager, Fresh(n), io)
                                 = R(Manager, FALSE, io)
                   /\ ~get_all_fuzzy_results(Manager).ok
            /\ current_mode = Fuzzy => ~get_all_exact_results(Manager).ok

\* A rejected call on a manager whose active store holds records
C20_Witness ==
    /\ last.ok = FALSE /\ last.tags = {"mismatch"}
    /\ last.op \in {"manager_add", "add_fuzzy", "add_fuzzy_batch",
                     "replace_all_fuzzy", "get_all_fuzzy", "get_all_exact"}
    /\ manager_total_count(Manager) > 0

---------------------------------------------------------------------------
(* C21..C30 *)

\* C21 (release order): in clear_disk, destroy and drop the mapping is
\* released before the file handle is closed and the handle is closed
\* before the file is unlinked; in no reachable state is the spill file
\* gone while its mapping or handle is live; after destroy (Ok or Err) and
\* after drop neither a mapping nor a handle is left, also when an earlier
\* operation returned an error.
C21_ReleaseOrder ==
    /\ ~misordered
    /\ (IsSome(mmap) \/ IsSome(disk_file)) => fs_exists
    /\ last.op = "destroy" => IsNone(mmap) /\ IsNone(disk_file)
    /\ \A io \in IoAny :
          LET c == clear_disk(Self, io).s
              d == destroy(Self, io).s
              g == drop_store(Self, io)
          IN  /\ ~c.misordered /\ IsNone(c.mmap) /\ IsNone(c.disk_file)
              /\ ~d.misordered /\ IsNone(d.mmap) /\ IsNone(d.disk_file)
              /\ ~g.misordered /\ IsNone(g.mmap) /\ IsNone(g.disk_file)

\* destroy has released the handle a failed growth had left without a
\* mapping, and unlinked the file
C21_Witness ==
    /\ last.op = "destroy" /\ last.ok /\ "torn" \in last.tags
    /\ IsNone(mmap) /\ IsNone(disk_file) /\ ~fs_exists

\* The two states of the spill
SpillIsAbsent ==
    /\ IsNone(disk_file_path) /\ IsNone(disk_file) /\ IsNone(mmap)
    /\ disk_count = 0
SpillIsActive == IsSome(disk_file_path) /\ IsSome(disk_file) /\ IsSome(mmap)

\* The operations that call add_result: add itself, replace_all (line 410)
\* and the rebuild of keep_only_results (line 610)
AddingOps == {"add", "replace_all", "keep_only"}

\* What a step may do to the spill
LifecycleStep ==
    /\ (SpillIsAbsent /\ SpillIsActive') =>
          /\ last'.op \in AddingOps /\ last'.ok
          /\ disk_count' > 0
          /\ Len(memory_buffer') = memory_buffer_capacity
    /\ (SpillIsActive /\ SpillIsAbsent') =>
          last'.op \in {"clear_disk", "destroy"}
    /\ (SpillIsActive /\ last'.op \notin {"clear_disk", "destroy"}) =>
          SpillIsActive'
    /\ (SpillIsActive /\ last'.op \in {"clear_disk", "destroy"}) =>
          SpillIsAbsent'

\* C22 (spill lifecycle): in runs without I/O failure the spill is always
\* absent (no path, handle or mapping, disk_count = 0) or active (all three
\* present); it becomes active only in an add (alone, inside replace_all
\* or inside the rebuild of keep_only) that writes to disk because RAM is
\* full or the capacity is 0; it stays active across add, clear, update, remove, remove_many,
\* keep_only and replace_all; it returns to absent only through
\* clear_disk or destroy.
C22_SpillLifecycle ==
    /\ [](SpillIsAbsent \/ SpillIsActive)
    /\ [][LifecycleStep]_vars

\* The spill is active again: an overflowing add after a clear_disk (which
\* left total_count behind, see C16) on a store with RAM
C22_Witness ==
    /\ last.op = "add" /\ last.ok
    /\ SpillIsActive /\ disk_count = 1
    /\ memory_buffer_capacity > 0
    /\ total_count > memory_count(Self) + disk_count

\* What a step may do to the length of the spill file
GrowthStep ==
    /\ (SpillIsAbsent /\ SpillIsActive' /\ AddStep(TRUE)) => fs_len' = GROW_STEP
    /\ (SpillIsActive /\ AddStep(TRUE) /\ ~add_to_memory(Self)) =>
          fs_len' = IF (disk_count + 1) * ITEM_SIZE > fs_len
                    THEN fs_len + GROW_STEP
                    ELSE fs_len
    /\ (SpillIsActive /\ last'.op \notin AddingOps) =>
          (SpillIsActive' => fs_len' = fs_len)
    /\ (SpillIsActive /\ SpillIsActive') => fs_len' >= fs_len

\* C23 (growth and coverage): in runs without I/O failure, whenever the
\* spill is active the mapping is as long as the file and covers
\* disk_count records; a file created by an add is one growth step long;
\* an add that writes to an active spill extends the file by exactly one
\* step when (disk_count + 1) * ITEM_SIZE exceeds its length and leaves the
\* length alone otherwise; while the spill stays active the length never
\* decreases, and no operation other than an add changes it.
C23_Growth ==
    /\ [](SpillIsActive =>
            /\ fs_exists
            /\ mmap = <<fs_len>>
            /\ fs_len >= disk_count * ITEM_SIZE
            /\ fs_len >= GROW_STEP)
    /\ [][GrowthStep]_vars

\* An add has just extended the file: its record lies in the last step
C23_Witness ==
    /\ last.op = "add" /\ last.ok
    /\ SpillIsActive /\ fs_len > GROW_STEP
    /\ disk_count * ITEM_SIZE > fs_len - GROW_STEP
    /\ (disk_count - 1) * ITEM_SIZE <= fs_len - GROW_STEP

\* What a successful add does with its record (the stamp next_stamp)
RoutedAdd ==
    AddStep(TRUE) =>
        /\ total_count' = total_count + 1
        /\ IF memory_buffer_capacity > 0 /\ Len(memory_buffer) < memory_buffer_capacity
           THEN /\ memory_buffer' = Append(memory_buffer, next_stamp)
                /\ disk_count' = disk_count
                /\ fs_data' = fs_data
           ELSE /\ memory_buffer' = memory_buffer
                /\ disk_count' = disk_count + 1
                /\ ub' = ub => slot_of(fs_data', disk_count) = next_stamp

\* C30 (append routing and RAM bound): a successful add increments
\* total_count by one and appends the record to the RAM buffer iff
\* capacity > 0 and memory_count < capacity, otherwise writes it to the
\* spill at disk position disk_count; memory_count <= capacity in every
\* reachable state; a budget of less than one record gives capacity 0, and
\* with capacity 0 memory_count stays 0.
C30_AppendRouting ==
    /\ [](/\ Len(memory_buffer) <= memory_buffer_capacity
          /\ memory_buffer_capacity = 0 => memory_buffer = <<>>
          /\ \A memory_buffer_size \in 0 .. ITEM_SIZE - 1 :
                new(memory_buffer_size).memory_buffer_capacity = 0)
    /\ [][RoutedAdd]_vars

\* from_bytes has returned: what it made of the slice
Copied ==
    LET b   == probe.bytes
        len == Min(Len(b), VALUE_LEN)
        v   == probe.item.value
    IN  /\ probe.item.address = probe.address
        /\ probe.item.value_type = probe.value_type
        /\ Len(v) = VALUE_LEN
        /\ \A i \in 1 .. len : v[i] = b[i]

\* C24 as the specification states it: from_bytes copies the first
\* min(len(b), 8) bytes in order, value[..size(t)] equals b[..size(t)], and
\* the bytes of value after the first size(t) bytes are zero.
C24_TrailingZeroAfterSize ==
    probe.op = "from_bytes" =>
        LET n == type_size(probe.value_type)
        IN  /\ Copied
            /\ Len(probe.bytes) >= n =>
                  SubSeq(probe.item.value, 1, n) = SubSeq(probe.bytes, 1, n)
            /\ \A i \in n + 1 .. VALUE_LEN : probe.item.value[i] = 0

\* C24 (from_bytes), amended: from_bytes returns a record for a slice of
\* every length 0 .. MaxSlice, with the address and type it was given; it
\* copies the first min(len(b), 8) bytes in order and the bytes of value
\* after the first min(len(b), 8) bytes are zero; value[..size(t)] equals
\* b[..size(t)] when b has at least size(t) bytes, and the bytes after the
\* first size(t) bytes are zero when b has at most size(t) bytes.
C24_FromBytes ==
    /\ probe.op = "args" => ENABLED FromBytes
    /\ probe.op = "from_bytes" =>
        LET n   == type_size(probe.value_type)
            len == Min(Len(probe.bytes), VALUE_LEN)
        IN  /\ Copied
            /\ \A i \in len + 1 .. VALUE_LEN : probe.item.value[i] = 0
            /\ Len(probe.bytes) >= n =>
                  SubSeq(probe.item.value, 1, n) = SubSeq(probe.bytes, 1, n)
            /\ Len(probe.bytes) <= n =>
                  \A i \in n + 1 .. VALUE_LEN : probe.item.value[i] = 0

\* A slice longer than the value field for a one-byte type: bytes of the
\* slice are kept after the first size(t) bytes, others are cut off
C24_Witness ==
    /\ probe.op = "from_bytes"
    /\ probe.value_type = Byte
    /\ Len(probe.bytes) > VALUE_LEN
    /\ probe.bytes[VALUE_LEN + 1] # 0
    /\ probe.item.value[2] # 0
    /\ probe.item.value[VALUE_LEN] = probe.bytes[VALUE_LEN]

\* The width in bytes at which the claim has a type decoded
DecodedWidth(value_type) ==
    CASE value_type = Byte  -> 1
      [] value_type = Word  -> 2
      [] value_type = Qword -> 8
      [] value_type \in {Dword, Auto, Xor} -> 4

\* C28 (as_i64): for a record of an integer type, as_i64 returns the number
\* of the type's width (Byte 1, Word 2, Dword 4, Qword 8 bytes) whose
\* two's-complement little-endian bytes are the first bytes of value,
\* negative when the top bit of that prefix is set; the bytes after the
\* prefix do not matter; Auto and Xor decode as Dword does.
C28_AsI64 ==
    (probe.op = "as_i64" /\ probe.item.value_type \in IntTypes) =>
        LET item == probe.item
            n    == DecodedWidth(item.value_type)
        IN  /\ probe.result >= int_min(n) /\ probe.result <= int_max(n)
            /\ to_le_bytes(probe.result, n) = SubSeq(item.value, 1, n)
            /\ probe.result < 0 <=> item.value[n] >= BYTE_MOD \div 2
            /\ \A bytes \in Slices :
                  Len(bytes) = VALUE_LEN - n =>
                     as_i64([item EXCEPT !.value = SubSeq(item.value, 1, n) \o bytes])
                        = probe.result
            /\ item.value_type \in {Auto, Xor} =>
                  as_i64([item EXCEPT !.value_type = Dword]) = probe.result

\* A Word whose two bytes have all bits set decodes to -1, with bytes set
\* after the prefix
C28_Witness ==
    /\ probe.op = "as_i64"
    /\ probe.item.value_type = Word
    /\ probe.item.value[1] = BYTE_MOD - 1 /\ probe.item.value[2] = BYTE_MOD - 1
    /\ probe.item.value[3] # 0
    /\ probe.result = 0 - 1

\* matches_condition has been called on a record of an integer type
IntMatched == probe.op = "matches_condition" /\ probe.item.value_type \in IntTypes

\* The old and the new value of the call, sign-extended, and their
\* wrapped difference
OldVal == as_i64(probe.item)
NewVal == as_i64(from_bytes(probe.item.address, probe.new_bytes, probe.item.value_type))
Diff   == wrap(NewVal - OldVal)

\* What the table of integer semantics gives for the conditions without a
\* percentage, negations wrapping
IntTable(condition) ==
    CASE condition.kind = "Initial"   -> TRUE
      [] condition.kind = "Unchanged" -> OldVal = NewVal
      [] condition.kind = "Changed"   -> OldVal # NewVal
      [] condition.kind = "Increased" -> NewVal > OldVal
      [] condition.kind = "Decreased" -> NewVal < OldVal
      [] condition.kind = "IncreasedBy" -> Diff = condition.amount
      [] condition.kind = "DecreasedBy" -> Diff = wrap(0 - condition.amount)
      [] condition.kind = "IncreasedByRange" ->
            condition.min <= Diff /\ Diff <= condition.max
      [] condition.kind = "DecreasedByRange" ->
            condition.min <= wrap(0 - Diff) /\ wrap(0 - Diff) <= condition.max

PercentKinds == {"IncreasedByPercent", "DecreasedByPercent"}

\* C25 (integer predicate semantics): for a record of a non-float type and
\* any old and new value of the type's width, matches returns what the
\* table gives: Initial true; Unchanged old = new; Changed old # new;
\* Increased new > old; Decreased new < old; IncreasedBy(k) diff = k;
\* DecreasedBy(k) diff = -k; IncreasedByRange(lo, hi) lo <= diff <= hi;
\* DecreasedByRange(lo, hi) lo <= -diff <= hi, with diff = new - old wrapped.
C25_IntSemantics ==
    (IntMatched /\ probe.condition.kind \notin PercentKinds) =>
        /\ ~probe.result.panicked
        /\ probe.result.value = IntTable(probe.condition)

\* C26 (no overflow error): for every old and new value, every amount and
\* every range end, the minimum 64-bit value included, the integer
\* comparator returns a boolean and does not raise an overflow error, also
\* in the negations of DecreasedBy and DecreasedByRange.
C26_NoOverflowError ==
    IntMatched => ~probe.result.panicked

\* matches_condition has been called with a percentage on a record of an
\* integer type
PercentMatched == IntMatched /\ probe.condition.kind \in PercentKinds

\* old * (1 + p) or old * (1 - p) of the call as an exact number of halves
ExactProduct ==
    OldVal * (IF probe.condition.kind = "IncreasedByPercent"
              THEN 2 + probe.condition.percent
              ELSE 2 - probe.condition.percent)

\* trunc of a number of halves: toward zero
TruncHalves(h) == Sign(h) * (Abs(h) \div 2)

\* What the claim gives for a percentage, the product being exact
PercentTable ==
    IF probe.condition.kind = "IncreasedByPercent"
    THEN (OldVal = 0 /\ NewVal > 0) \/ (OldVal # 0 /\ NewVal >= TruncHalves(ExactProduct))
    ELSE (OldVal = 0 /\ NewVal < 0) \/ (OldVal # 0 /\ NewVal <= TruncHalves(ExactProduct))

\* C27 as the specification states it: for every non-float record,
\* IncreasedByPercent(p) holds iff (old = 0 and new > 0) or (old # 0 and
\* new >= trunc(old * (1 + p))), DecreasedByPercent(p) iff (old = 0 and
\* new < 0) or (old # 0 and new <= trunc(old * (1 - p))).
C27_PercentExact ==
    PercentMatched => (~probe.result.panicked /\ probe.result.value = PercentTable)

\* C27 (integer percent predicates), amended: the call returns a boolean;
\* with old = 0, IncreasedByPercent holds iff new > 0 and
\* DecreasedByPercent iff new < 0; with old # 0 they hold iff
\* new >= trunc(old * (1 + p)) and new <= trunc(old * (1 - p)), truncation
\* toward zero, for positive and negative old, whenever old and the
\* product have no more significant bits than an f64 holds.
C27_Percent ==
    PercentMatched =>
        /\ ~probe.result.panicked
        /\ OldVal = 0 => probe.result.value = PercentTable
        /\ (bit_len(Abs(OldVal)) <= MANT_DIG /\ bit_len(Abs(ExactProduct)) <= MANT_DIG) =>
              probe.result.value = PercentTable

\* The example: old 100, p = 0.5, new 50 matches DecreasedByPercent
C27_Witness ==
    /\ PercentMatched
    /\ probe.item.value_type = Dword
    /\ OldVal = 100 /\ NewVal = 50
    /\ probe.condition = DecreasedByPercent(1)
    /\ probe.result.value

\* matches_condition has been called on a Float or Double record
FloatMatched ==
    probe.op = "matches_condition" /\ is_float_type(probe.item.value_type)

\* The old and the new value of the call as floats
OldF == as_f64(probe.item)
NewF == as_f64(from_bytes(probe.item.address, probe.new_bytes, probe.item.value_type))

\* What the same call returns for another condition
Matches(condition) ==
    matches_condition(probe.item, probe.new_bytes, condition, probe.overflow_checks).value

\* What the table of float semantics gives for two finite values, as
\* numbers of grid units
FloatTable(kind, old, new_val) ==
    CASE kind = "Unchanged" -> Abs(old - new_val) < epsilon.v
      [] kind = "Changed"   -> Abs(old - new_val) >= epsilon.v
      [] kind = "Increased" -> new_val > old + epsilon.v
      [] kind = "Decreased" -> new_val < old - epsilon.v

\* C29 as the specification states it: on a Float or Double record,
\* Unchanged iff |old - new| < eps, Changed iff |old - new| >= eps,
\* Increased iff new > old + eps, Decreased iff new < old - eps, and for
\* any inputs Changed is the exact negation of Unchanged.
C29_ChangedNegatesUnchanged ==
    FloatMatched =>
        /\ ~probe.result.panicked
        /\ (probe.condition.kind \in {"Unchanged", "Changed", "Increased", "Decreased"}
            /\ OldF.kind = "fin" /\ NewF.kind = "fin") =>
              probe.result.value = FloatTable(probe.condition.kind, OldF.v, NewF.v)
        /\ probe.condition = Changed => probe.result.value = ~Matches(Unchanged)

\* C29 (float predicate semantics), amended: on a Float or Double record
\* every condition is evaluated by the float comparator and the call
\* returns a boolean; for finite old and new, Unchanged iff
\* |old - new| < eps, Changed iff |old - new| >= eps, Increased iff
\* new > old + eps, Decreased iff new < old - eps; Changed is the negation
\* of Unchanged whenever old - new is a number, and when it is NaN (old or
\* new is NaN, or both are the same infinity) neither of them matches.
C29_FloatSemantics ==
    FloatMatched =>
        /\ ~probe.result.panicked
        /\ probe.result =
              matches_condition_float(probe.item,
                  from_bytes(probe.item.address, probe.new_bytes, probe.item.value_type),
                  probe.condition)
        /\ (probe.condition.kind \in {"Unchanged", "Changed", "Increased", "Decreased"}
            /\ OldF.kind = "fin" /\ NewF.kind = "fin") =>
              probe.result.value = FloatTable(probe.condition.kind, OldF.v, NewF.v)
        /\ probe.condition \in {Unchanged, Changed} =>
              IF is_nan(OldF) \/ is_nan(NewF) \/ (OldF.kind = "inf" /\ NewF = OldF)
              THEN ~probe.result.value
              ELSE Matches(Changed) = ~Matches(Unchanged)

\* Changed on a NaN sample: no match, and Unchanged does not match either
C29_Witness ==
    /\ FloatMatched
    /\ probe.item.value_type = Float
    /\ OldF = Fin(ONE) /\ is_nan(NewF)
    /\ probe.condition = Changed
    /\ ~probe.result.value /\ ~Matches(Unchanged)

---------------------------------------------------------------------------
(* C31..C35 *)

\* The records of the spill, in slot order
Spilled(s) == [k \in 1 .. s.disk_count |-> slot_of(s.fs_data, k - 1)]

Complement(s, K) ==
    SelectSeq([k \in 1 .. s.total_count |-> k - 1], LAMBDA i : i \notin SeqToSet(K))

\* The records a keep list names, in sorted index order, out-of-range
\* entries skipped
Survivors(s, K) ==
    LET inrange == SelectSeq(sort_unstable(K), LAMBDA i : i < s.total_count)
    IN  [k \in 1 .. Len(inrange) |-> at(get_all_results(s), inrange[k])]

\* The spill file is where and as long as it was
SpillKept(s) ==
    /\ s.fs_exists = fs_exists /\ s.fs_len >= fs_len
    /\ s.disk_file_path = disk_file_path
    /\ IsSome(disk_file) => IsSome(s.disk_file)

\* C32 (keep_only strategy selection): in failure-free runs of add, remove,
\* remove_many, keep_only and replace_all, for every index list K:
\* with K empty all three counters become 0 and the spill file is kept;
\* with keep_count > remove_count, where keep_count = Len(K) and
\* remove_count = total_count - keep_count, the call leaves the store
\* remove_many of the complement of K leaves; otherwise the survivors are
\* read in sorted index order and re-appended to the emptied store, so
\* memory_count = min(survivors, capacity), disk_count is the remainder,
\* get_all returns the survivors and the spill file is not truncated.
C32_StrategySelection ==
    \A K \in IndexLists :
        LET r == keep_only_results(Self, K, NoFail)
            keep_count == Len(K)
            remove_count == total_count - keep_count
            survivors == Survivors(Self, K)
        IN  /\ r.ok
            /\ IF K = <<>>
               THEN /\ r.s.total_count = 0 /\ memory_count(r.s) = 0 /\ r.s.disk_count = 0
                    /\ SpillKept(r.s) /\ r.s.fs_len = fs_len
               ELSE IF keep_count > remove_count
               THEN r.s = remove_results_batch(Self, Complement(Self, K))
               ELSE /\ memory_count(r.s) = Min(Len(survivors), memory_buffer_capacity)
                    /\ r.s.disk_count = Len(survivors) - memory_count(r.s)
                    /\ r.s.total_count = Len(survivors)
                    /\ get_all_results(r.s) = survivors
                    /\ SpillKept(r.s)

\* C33 (keep_only of a list at least as long as the store): in every
\* reachable state, system calls failing or not, keep_only with a
\* non-empty list whose length, duplicates and out-of-range entries
\* counted, is at least total_count returns Ok and leaves the store
\* unchanged: the same records, counters, file and mapping, whatever
\* indices the list holds.
C33_KeepAllUnchanged ==
    \A K \in IndexLists : \A io \in IoAny :
        (K # <<>> /\ Len(K) >= total_count) =>
            LET r == keep_only_results(Self, K, io)
            IN  /\ r.ok
                /\ r.s = Self
                /\ get_all_results(r.s) = All

\* A keep_only of an unsorted list with a duplicate and an out-of-range
\* entry has run on a store of at least MaxList records and left that
\* many: the list, of at most MaxList entries, was no longer than the
\* store afterwards, and a shorter list than the store before would have
\* removed a record for its duplicate and its out-of-range entry.
C33_Witness ==
    /\ last.op = "keep_only" /\ last.ok
    /\ "messy" \in last.tags
    /\ total_count >= MaxList
    /\ disk_count > 0

\* The store the mode does not select
Inactive == IF current_mode = Exact THEN Self ELSE exact

\* The store the mode selects
Active == IF current_mode = Exact THEN exact ELSE Self

\* C34 (only the active store holds records): in every reachable state of
\* the manager, after any sequence of set_mode (whose clear_disk may fail),
\* add, batch add, remove, remove_many, keep_only, replace_all, clear and
\* the typed reads, the store that is not the current mode is empty:
\* total_count = 0, and with it memory_count = 0 and disk_count = 0.
C34_InactiveStoreEmpty ==
    /\ Inactive.total_count = 0
    /\ memory_count(Inactive) = 0
    /\ Inactive.disk_count = 0

\* The manager is in fuzzy mode and the fuzzy store holds records, after
\* the exact store had spilled and was emptied by a switch whose unlink
\* failed: its file is still there
C34_Witness ==
    /\ current_mode = Fuzzy
    /\ Active.total_count > 0
    /\ exact.fs_exists

\* The list remove_many hands to the disk compaction of store s: the
\* sorted, distinct, in-range indices at or above memory_count, counted
\* from the start of the spill
DiskIndices(s, indices) ==
    LET kept == batch_indices(s, indices)
        memory_len == Len(s.memory_buffer)
        disk_indices == SelectSeq(kept, LAMBDA idx : ~(idx < memory_len))
    IN  [k \in 1 .. Len(disk_indices) |-> disk_indices[k] - memory_len]

\* The loop of the disk compaction runs on that list
Compacts(s, sorted_disk_indices) ==
    /\ sorted_disk_indices # <<>> /\ s.disk_count # 0
    /\ IsSome(s.mmap)
    /\ sorted_disk_indices[1] < s.disk_count

\* C35 (two-pointer disk compaction): in every reachable state of the
\* store, system calls failing or not, for every index list handed to
\* remove_many whose disk part starts the loop: at every copy step
\* write_pos < read_pos < disk_count, the destination slot ends where or
\* before the source slot begins, and both slots lie inside the first
\* disk_count * ITEM_SIZE bytes; the mapping covers these bytes unless an
\* earlier add has already written outside it; read_pos takes each
\* position from the first deleted index to disk_count - 1 once, in order;
\* and disk_count ends equal to write_pos.
C35_TwoPointerCompaction ==
    \A indices \in IndexLists :
        LET sorted_disk_indices == DiskIndices(Self, indices)
        IN  Compacts(Self, sorted_disk_indices) =>
            LET first_del == sorted_disk_indices[1]
                c == disk_compact(fs_data, sorted_disk_indices, first_del, first_del,
                                  disk_count)
            IN  /\ \A k \in 1 .. Len(c.copies) :
                      LET src == c.copies[k].read_pos * ITEM_SIZE
                          dst == c.copies[k].write_pos * ITEM_SIZE
                      IN  /\ c.copies[k].write_pos < c.copies[k].read_pos
                          /\ c.copies[k].read_pos < disk_count
                          /\ dst + ITEM_SIZE <= src
                          /\ src + ITEM_SIZE <= disk_count * ITEM_SIZE
                /\ ~ub => disk_count * ITEM_SIZE <= mmap[1]
                /\ c.visited = [k \in 1 .. disk_count - first_del |-> first_del + k - 1]
                /\ remove_disk_batch(Self, sorted_disk_indices).disk_count = c.write_pos
                /\ remove_results_batch(Self, indices).disk_count = c.write_pos

\* A remove_many of an unsorted list with a duplicate, an out-of-range
\* entry and an entry of the spill has run and made a copy: the slot
\* behind the last record of the spill still holds that record, which the
\* loop moved one slot down (had the call removed only the tail of the
\* spill, that slot would hold a removed record)
C35_Witness ==
    /\ last.op = "remove_many"
    /\ "messy" \in last.tags
    /\ disk_count > 0 /\ ~ub
    /\ slot_of(fs_data, disk_count - 1) # ZeroItem
    /\ slot_of(fs_data, disk_count) = slot_of(fs_data, disk_count - 1)
====
